---- MODULE Spec2Model ----
(***************************************************************************)
(* Verification model of the lithium engine's collision core:              *)
(* broad phase (check_hitboxes), narrow phase (check_sat), convex hull,    *)
(* contact resolution (compute_reaction) and the solver loop.              *)
(*                                                                         *)
(* Numbers.  The program computes in f32.  The model computes in exact     *)
(* rational arithmetic: a number is a record [n |-> numerator,             *)
(* d |-> denominator] in lowest terms with d > 0.  Rounding of f32 is not  *)
(* modelled; sqrt is exact and is applied only to squares of rationals.    *)
(***************************************************************************)
EXTENDS Integers, Sequences, FiniteSets, TLC

VARIABLES
    satArgs,    \* the pair of swept shapes handed to the collision tests
    satRet,     \* what check_hitboxes / check_sat / check_collision returned
    hullArgs,   \* the point list handed to convex_hull
    hullRet,    \* what convex_hull returned
    world,      \* the component stores: transform, rigid_body, surface, shape
    reactArgs,  \* the arguments of compute_reaction and the stores before it
    stepArgs,   \* the force, sort flag and iteration count the driver steps with
    pc,         \* position of the driver inside one physics step
    callArgs,   \* the arguments of the last call of a function or method
    callRet,    \* what that call returned
    obj         \* the value the methods under test act on

vars ==
    <<satArgs, satRet, hullArgs, hullRet, world, reactArgs, stepArgs, pc,
      callArgs, callRet, obj>>

-----------------------------------------------------------------------------
(* Exact rational arithmetic standing for f32 arithmetic.                  *)

Abs(i) == IF i < 0 THEN -i ELSE i

RECURSIVE Gcd(_, _)
Gcd(a, b) == IF b = 0 THEN a ELSE Gcd(b, a % b)

Frac(n, d) ==
    LET s == IF d < 0 THEN -1 ELSE 1
        g == Gcd(Abs(n), Abs(d))
    IN  [n |-> (s * n) \div g, d |-> (s * d) \div g]

R(i) == [n |-> i, d |-> 1]

RAdd(a, b) ==
    LET g == Gcd(a.d, b.d)
    IN  Frac(a.n * (b.d \div g) + b.n * (a.d \div g), (a.d \div g) * b.d)

RNeg(a) == [n |-> -a.n, d |-> a.d]

RSub(a, b) == RAdd(a, RNeg(b))

RMul(a, b) ==
    LET g1 == Gcd(Abs(a.n), b.d)
        g2 == Gcd(Abs(b.n), a.d)
    IN  Frac((a.n \div g1) * (b.n \div g2), (a.d \div g2) * (b.d \div g1))

RInv(a) == Frac(a.d, a.n)

RDiv(a, b) == RMul(a, RInv(b))

RLt(a, b) ==
    LET g == Gcd(a.d, b.d)
    IN  a.n * (b.d \div g) < b.n * (a.d \div g)

RLe(a, b) == ~RLt(b, a)
RGt(a, b) == RLt(b, a)
RGe(a, b) == ~RLt(a, b)

RAbs(a) == [n |-> Abs(a.n), d |-> a.d]
RMin(a, b) == IF RLt(b, a) THEN b ELSE a
RMax(a, b) == IF RLt(a, b) THEN b ELSE a

Zero == R(0)
One == R(1)

\* Integer square root of a perfect square; the model applies it to squares only.
ISqrt(k) == CHOOSE r \in 0..k : r * r = k

RSqrt(a) == [n |-> ISqrt(a.n), d |-> ISqrt(a.d)]

pow2(x) == RMul(x, x)

-----------------------------------------------------------------------------
(* Tolerances.                                                             *)

EpsDen == 1000000
EPS == Frac(1, EpsDen)

\* x > EPS_SQR and x < EPS_SQR for EPS_SQR = EPS * EPS = 1 / EpsDen^2, decided
\* without forming EpsDen^2:  n/d > 1/E^2  <=>  n*E > d/E  <=>  n*E > floor(d/E).
GtEpsSqr(x) ==
    LET q == x.d \div EpsDen
    IN  x.n > 0 /\ (x.n > q \/ x.n * EpsDen > q)

LtEpsSqr(x) ==
    LET q == x.d \div EpsDen
    IN  x.n <= 0 \/ (x.n <= q /\ (x.n * EpsDen < q
                                  \/ (x.n * EpsDen = q /\ x.d % EpsDen # 0)))

-----------------------------------------------------------------------------
(* Vec2 (components.rs).                                                   *)

Vec2(x, y) == [x |-> x, y |-> y]
V(i, j) == Vec2(R(i), R(j))

add(v, w) == Vec2(RAdd(v.x, w.x), RAdd(v.y, w.y))
add_scalar(v, x, y) == Vec2(RAdd(v.x, x), RAdd(v.y, y))
sub(v, w) == Vec2(RSub(v.x, w.x), RSub(v.y, w.y))
scale(v, k) == Vec2(RMul(v.x, k), RMul(v.y, k))
neg(v) == Vec2(RNeg(v.x), RNeg(v.y))
perp_ccw(v) == Vec2(RNeg(v.y), v.x)
dot(v, w) == RAdd(RMul(v.x, w.x), RMul(v.y, w.y))
cross(v, w) == RSub(RMul(v.x, w.y), RMul(v.y, w.x))
signed_area(p, q, r) == cross(sub(q, p), sub(r, p))
square_mag(v) == RAdd(pow2(v.x), pow2(v.y))
\* sqrt(x * x + y * y); for a vector along an axis this is |x| or |y|, taken
\* without forming the square.
mag(v) ==
    IF v.x = Zero THEN RAbs(v.y)
    ELSE IF v.y = Zero THEN RAbs(v.x)
    ELSE RSqrt(square_mag(v))
square_dist(p, q) == RAdd(pow2(RSub(q.x, p.x)), pow2(RSub(q.y, p.y)))
norm(v) == LET m == mag(v) IN Vec2(RDiv(v.x, m), RDiv(v.y, m))

\* Whether mag(v) is a rational, so that the model's exact sqrt applies to it.
HasRationalMag(v) ==
    LET s == square_mag(v)
    IN  /\ \E r \in 0..s.n : r * r = s.n
        /\ \E r \in 0..s.d : r * r = s.d

-----------------------------------------------------------------------------
(* Shapes, hit boxes and swept shapes (components.rs).                     *)

Segment(a, b) == [kind |-> "Segment", a |-> a, b |-> b]
Triangle(a, b, c) == [kind |-> "Triangle", a |-> a, b |-> b, c |-> c]
Rect(w, h) == [kind |-> "Rect", width |-> w, height |-> h]
Polygon(verts) == [kind |-> "Polygon", verts |-> verts]

Unmoved(shape, pos) == [tag |-> "Unmoved", shape |-> shape, pos |-> pos]
AxisRect(swept, pos) == [tag |-> "AxisRect", swept |-> swept, pos |-> pos]
Moved(swept) == [tag |-> "Moved", swept |-> swept]

HitBox(min_x, min_y, max_x, max_y) ==
    [min_x |-> min_x, min_y |-> min_y, max_x |-> max_x, max_y |-> max_y]

add_pos(hb, pos) ==
    HitBox(RAdd(hb.min_x, pos.x), RAdd(hb.min_y, pos.y),
           RAdd(hb.max_x, pos.x), RAdd(hb.max_y, pos.y))

\* Folds of min / max over a non-empty sequence of numbers.  The program starts
\* the fold from f32::MAX / f32::MIN (or +-INFINITY), which any vertex replaces.
RECURSIVE MinOf(_)
MinOf(s) == IF Len(s) = 1 THEN s[1] ELSE RMin(s[1], MinOf(Tail(s)))

RECURSIVE MaxOf(_)
MaxOf(s) == IF Len(s) = 1 THEN s[1] ELSE RMax(s[1], MaxOf(Tail(s)))

Xs(verts) == [i \in 1..Len(verts) |-> verts[i].x]
Ys(verts) == [i \in 1..Len(verts) |-> verts[i].y]

VertsHitBox(verts) == HitBox(MinOf(Xs(verts)), MinOf(Ys(verts)), MaxOf(Xs(verts)), MaxOf(Ys(verts)))

ShapeHitBox(shape) ==
    CASE shape.kind = "Segment" -> VertsHitBox(<<shape.a, shape.b>>)
      [] shape.kind = "Triangle" -> VertsHitBox(<<shape.a, shape.b, shape.c>>)
      [] shape.kind = "Rect" -> HitBox(Zero, Zero, shape.width, shape.height)
      [] shape.kind = "Polygon" -> VertsHitBox(shape.verts)

SweptHitBox(ss) ==
    CASE ss.tag = "Unmoved" -> add_pos(ShapeHitBox(ss.shape), ss.pos)
      [] ss.tag = "AxisRect" -> add_pos(ShapeHitBox(ss.swept), ss.pos)
      [] ss.tag = "Moved" -> ShapeHitBox(ss.swept)

-----------------------------------------------------------------------------
(* Broad phase and narrow phase (collisions.rs).                           *)

check_hitboxes(hitbox_1, hitbox_2) ==
    ~(\/ RGt(hitbox_1.min_x, RAdd(hitbox_2.max_x, EPS))
      \/ RGt(hitbox_2.min_x, RAdd(hitbox_1.max_x, EPS))
      \/ RGt(hitbox_1.min_y, RAdd(hitbox_2.max_y, EPS))
      \/ RGt(hitbox_2.min_y, RAdd(hitbox_1.max_y, EPS)))

\* The edges of a vertex list, closed cyclically: edge i runs from vertex i to
\* vertex i + 1 (mod len).
PolygonEdges(verts) ==
    [i \in 1..Len(verts) |-> sub(verts[(i % Len(verts)) + 1], verts[i])]

\* One axis per edge that is longer than EPS: the normalised counter-clockwise
\* perpendicular of the edge.
RECURSIVE EdgeAxes(_)
EdgeAxes(edges) ==
    IF edges = <<>> THEN <<>>
    ELSE (IF GtEpsSqr(square_mag(Head(edges)))
          THEN <<norm(perp_ccw(Head(edges)))>> ELSE <<>>) \o EdgeAxes(Tail(edges))

WorldAxes == <<V(1, 0), V(0, 1)>>

add_axes(ss) ==
    CASE ss.tag = "Unmoved" /\ ss.shape.kind = "Segment" ->
            EdgeAxes(<<sub(ss.shape.b, ss.shape.a)>>)
      [] ss.tag = "Unmoved" /\ ss.shape.kind = "Triangle" ->
            EdgeAxes(<<sub(ss.shape.b, ss.shape.a), sub(ss.shape.c, ss.shape.b),
                       sub(ss.shape.a, ss.shape.c)>>)
      [] ss.tag = "Unmoved" /\ ss.shape.kind = "Rect" -> WorldAxes
      [] ss.tag = "Unmoved" /\ ss.shape.kind = "Polygon" ->
            EdgeAxes(PolygonEdges(ss.shape.verts))
      [] ss.tag = "AxisRect" -> WorldAxes
      [] ss.tag = "Moved" -> EdgeAxes(PolygonEdges(ss.swept.verts))

\* The projections of a vertex list, each vertex moved by pos, onto axis.
Projections(verts, pos, axis) == [i \in 1..Len(verts) |-> dot(add(pos, verts[i]), axis)]

Interval(projs) == <<MinOf(projs), MaxOf(projs)>>

project_rect(rect, pos, axis) ==
    Interval(<<dot(pos, axis),
               dot(add_scalar(pos, rect.width, Zero), axis),
               dot(add_scalar(pos, Zero, rect.height), axis),
               dot(add_scalar(pos, rect.width, rect.height), axis)>>)

project_shape(ss, axis) ==
    CASE ss.tag = "Unmoved" /\ ss.shape.kind = "Segment" ->
            Interval(Projections(<<ss.shape.a, ss.shape.b>>, ss.pos, axis))
      [] ss.tag = "Unmoved" /\ ss.shape.kind = "Triangle" ->
            Interval(Projections(<<ss.shape.a, ss.shape.b, ss.shape.c>>, ss.pos, axis))
      [] ss.tag = "Unmoved" /\ ss.shape.kind = "Rect" -> project_rect(ss.shape, ss.pos, axis)
      [] ss.tag = "Unmoved" /\ ss.shape.kind = "Polygon" ->
            Interval(Projections(ss.shape.verts, ss.pos, axis))
      [] ss.tag = "AxisRect" -> project_rect(ss.swept, ss.pos, axis)
      [] ss.tag = "Moved" -> Interval(Projections(ss.swept.verts, V(0, 0), axis))

\* The loop pushes every axis: the `continue` taken when an axis is parallel to
\* one already kept continues the inner loop over `unique`, not the outer loop,
\* so the push that follows the inner loop is always reached.
RECURSIVE remove_duplicate_axes_from(_, _)
remove_duplicate_axes_from(axes, unique) ==
    IF axes = <<>> THEN unique
    ELSE remove_duplicate_axes_from(Tail(axes), Append(unique, Head(axes)))

remove_duplicate_axes(axes) == remove_duplicate_axes_from(axes, <<>>)

RECURSIVE SumVerts(_)
SumVerts(verts) == IF verts = <<>> THEN V(0, 0) ELSE add(Head(verts), SumVerts(Tail(verts)))

centroid(ss) ==
    CASE ss.tag = "Unmoved" /\ ss.shape.kind = "Segment" ->
            add(ss.pos, scale(add(ss.shape.a, ss.shape.b), Frac(1, 2)))
      [] ss.tag = "Unmoved" /\ ss.shape.kind = "Triangle" ->
            add(ss.pos, scale(add(ss.shape.a, add(ss.shape.b, ss.shape.c)), Frac(1, 3)))
      [] ss.tag = "Unmoved" /\ ss.shape.kind = "Rect" ->
            add(ss.pos, Vec2(RDiv(ss.shape.width, R(2)), RDiv(ss.shape.height, R(2))))
      [] ss.tag = "Unmoved" /\ ss.shape.kind = "Polygon" ->
            add(ss.pos, scale(SumVerts(ss.shape.verts), Frac(1, Len(ss.shape.verts))))
      [] ss.tag = "AxisRect" ->
            add(ss.pos, Vec2(RDiv(ss.swept.width, R(2)), RDiv(ss.swept.height, R(2))))
      [] ss.tag = "Moved" ->
            scale(SumVerts(ss.swept.verts), Frac(1, Len(ss.swept.verts)))

None == [some |-> FALSE]
Some(v) == [some |-> TRUE, val |-> v]

\* min_overlap starts at f32::INFINITY, written Inf here.
Inf == [inf |-> TRUE]
\* A comparison that keeps the largest overlap.
GtOverlap(overlap, min_overlap) ==
    IF min_overlap = Inf THEN TRUE ELSE RGt(overlap, min_overlap)

LtOverlap(overlap, min_overlap) ==
    IF min_overlap = Inf THEN TRUE ELSE RLt(overlap, min_overlap)

\* A separation test without the tolerance.
AxisSeparatesNoEps(ss1, ss2, axis) ==
    LET p1 == project_shape(ss1, axis)
        p2 == project_shape(ss2, axis)
    IN  RGt(p1[1], p2[2]) \/ RGt(p2[1], p1[2])

AxisSeparates(ss1, ss2, axis) ==
    LET p1 == project_shape(ss1, axis)
        p2 == project_shape(ss2, axis)
    IN  RGt(p1[1], RAdd(p2[2], EPS)) \/ RGt(p2[1], RAdd(p1[2], EPS))

AxisOverlap(ss1, ss2, axis) ==
    LET p1 == project_shape(ss1, axis)
        p2 == project_shape(ss2, axis)
    IN  RSub(RMin(p1[2], p2[2]), RMax(p1[1], p2[1]))

\* The loop of check_sat over the axes, from the state (min_overlap, normal).
RECURSIVE SatLoop(_, _, _, _, _, _)
SatLoop(ss1, ss2, axes, delta, min_overlap, normal) ==
    IF axes = <<>> THEN Some(normal)
    ELSE LET axis == Head(axes)
             overlap == AxisOverlap(ss1, ss2, axis)
         IN  IF AxisSeparates(ss1, ss2, axis) THEN None
             ELSE IF LtOverlap(overlap, min_overlap)
                  THEN SatLoop(ss1, ss2, Tail(axes), delta, overlap,
                               IF RLt(dot(delta, axis), Zero) THEN neg(axis) ELSE axis)
                  ELSE SatLoop(ss1, ss2, Tail(axes), delta, min_overlap, normal)

SatAxes(ss1, ss2) == remove_duplicate_axes(add_axes(ss1) \o add_axes(ss2))

check_sat(ss1, ss2) ==
    SatLoop(ss1, ss2, SatAxes(ss1, ss2), sub(centroid(ss2), centroid(ss1)), Inf, V(0, 0))

check_collision(ss1, ss2) ==
    IF check_hitboxes(SweptHitBox(ss1), SweptHitBox(ss2)) THEN check_sat(ss1, ss2) ELSE None

-----------------------------------------------------------------------------
(* Inputs of the collision tests: swept shapes with edges of rational      *)
(* length, placed on a grid of step 5, the second shape also at            *)
(* offsets of half an EPS from the abscissas where two shapes touch.        *)

GridMaxX == 4
GridMaxY == 2
MaxHalfEps == 3

Rect10 == Rect(R(10), R(10))
SegmentH == Segment(V(0, 0), V(4, 0))
SegmentD == Segment(V(0, 0), V(4, 3))
Triangle345 == Triangle(V(0, 0), V(0, 3), V(4, 0))
Diamond == Polygon(<<V(0, 3), V(4, 6), V(8, 3), V(4, 0)>>)
SweptRect == Rect(R(10), R(14))
\* The hull of Rect10 at (0, 0) and at (3, 4), in the orientation validation accepts.
HullVerts == <<V(0, 0), V(0, 10), V(3, 14), V(13, 14), V(13, 4), V(10, 0)>>

LocalShapes == {Rect10, SegmentH, SegmentD, Triangle345, Diamond}

Translate(verts, pos) == [i \in 1..Len(verts) |-> add(pos, verts[i])]

SweptShapesAt(pos) ==
    {Unmoved(sh, pos) : sh \in LocalShapes}
        \cup {AxisRect(SweptRect, pos), Moved(Polygon(Translate(HullVerts, pos)))}

GridPositions == {V(5 * i, 5 * j) : i \in 0..GridMaxX, j \in 0..GridMaxY}

\* Abscissas w + k * EPS / 2: a gap of k half-EPS right of a shape of width w
\* (10 for the boxes, 8 for the diamond) placed at 0.
NearTouchPositions ==
    {Vec2(RAdd(R(w), Frac(k, 2 * EpsDen)), R(0)) : w \in {8, 10}, k \in 1..MaxHalfEps}

FirstShapes == SweptShapesAt(V(0, 0))

SecondShapes ==
    UNION {SweptShapesAt(pos) : pos \in GridPositions}
        \cup UNION {{Unmoved(sh, pos) : sh \in LocalShapes} \cup {AxisRect(SweptRect, pos)}
                    : pos \in NearTouchPositions}

Pending == [done |-> FALSE]

SatIdle == satArgs = <<>> /\ satRet = Pending
HullIdle == hullArgs = <<>> /\ hullRet = Pending
WorldIdle == world = <<>> /\ reactArgs = <<>> /\ stepArgs = <<>> /\ pc = "idle"
CallIdle == callArgs = <<>> /\ callRet = Pending /\ obj = <<>>

\* What a call on the component stores leaves alone.
StepFrame ==
    UNCHANGED <<satArgs, satRet, hullArgs, hullRet, reactArgs, stepArgs,
                callArgs, callRet, obj>>

SatInit ==
    /\ satArgs \in FirstShapes \X SecondShapes
    /\ satRet = Pending
    /\ HullIdle
    /\ WorldIdle
    /\ CallIdle

\* The three tests of collisions.rs applied to the same pair of swept shapes.
CallCollisionTests ==
    /\ ~satRet.done
    /\ Len(satArgs) = 2
    /\ satRet' = [done |-> TRUE,
                  broad |-> check_hitboxes(SweptHitBox(satArgs[1]), SweptHitBox(satArgs[2])),
                  narrow |-> check_sat(satArgs[1], satArgs[2]),
                  collision |-> check_collision(satArgs[1], satArgs[2])]
    /\ UNCHANGED <<satArgs, hullArgs, hullRet, world, reactArgs, stepArgs, pc,
                 callArgs, callRet, obj>>

SatNext == CallCollisionTests

SpecSat == SatInit /\ [][SatNext]_vars

SatDone == satRet.done

-----------------------------------------------------------------------------
(* Claims about the broad phase and the narrow phase.                      *)

Range(seq) == {seq[i] : i \in 1..Len(seq)}

\* The candidate axes of a pair: the edge normals of both shapes (the two world
\* axes for a rectangle).
CandidateAxes == Range(add_axes(satArgs[1])) \cup Range(add_axes(satArgs[2]))

\* C1: broad-phase soundness: whenever check_sat returns a contact normal for a
\* pair of swept shapes, check_hitboxes on the hit boxes of the same pair is true.
C1_BroadPhaseSound == (SatDone /\ satRet.narrow.some) => satRet.broad

\* The projection intervals of the pair on axis are disjoint beyond the tolerance.
DisjointBeyondEps(axis) ==
    LET i1 == project_shape(satArgs[1], axis)
        i2 == project_shape(satArgs[2], axis)
    IN  RGt(RSub(i1[1], i2[2]), EPS) \/ RGt(RSub(i2[1], i1[2]), EPS)

\* The gap between the projection intervals on axis is zero or negative.
TouchOrOverlap(axis) ==
    LET i1 == project_shape(satArgs[1], axis)
        i2 == project_shape(satArgs[2], axis)
    IN  RLe(i1[1], i2[2]) /\ RLe(i2[1], i1[2])

RectsAt(x, y) == <<Unmoved(Rect10, V(0, 0)), Unmoved(Rect10, V(x, y))>>

\* C2: SAT separation: check_sat returns none exactly when some candidate axis
\* has projection intervals disjoint beyond EPS; so the 10x10 rectangles at (0,0)
\* and (20,0) do not collide, and shapes that overlap or touch on every axis do.
C2_SatSeparation ==
    SatDone =>
        /\ (~satRet.narrow.some) <=> (\E axis \in CandidateAxes : DisjointBeyondEps(axis))
        /\ satArgs = RectsAt(20, 0) => ~satRet.narrow.some
        /\ (\A axis \in CandidateAxes : TouchOrOverlap(axis)) => satRet.narrow.some

C2_Witness == SatDone /\ satArgs = RectsAt(20, 0) /\ satRet.narrow = None

\* C3: SAT contact normal: a returned normal is, up to sign, a candidate axis of
\* smallest projection overlap, and points from shape 1's centroid toward shape
\* 2's; the 10x10 rectangles at (0,0) and (5,0) give the normal (1,0).
C3_ContactNormal ==
    (SatDone /\ satRet.narrow.some) =>
        LET n == satRet.narrow.val
            delta == sub(centroid(satArgs[2]), centroid(satArgs[1]))
        IN  /\ \E a \in CandidateAxes :
                /\ n = a \/ n = neg(a)
                /\ \A b \in CandidateAxes :
                        RLe(AxisOverlap(satArgs[1], satArgs[2], a),
                            AxisOverlap(satArgs[1], satArgs[2], b))
            /\ RGe(dot(delta, n), Zero)
            /\ satArgs = RectsAt(5, 0) => n = V(1, 0)

C3_Witness == SatDone /\ satArgs = RectsAt(5, 0) /\ satRet.narrow = Some(V(1, 0))

-----------------------------------------------------------------------------
(* Polygon validation (geometry.rs) and the convex hull (collisions.rs).   *)

Ok(v) == [ok |-> TRUE, val |-> v]
Err(e) == [ok |-> FALSE, err |-> e]

TooFewVertices(n) == [kind |-> "TooFewVertices", n |-> n]
DuplicateVertices == [kind |-> "DuplicateVertices"]
NotConvex == [kind |-> "NotConvex"]

\* square_dist(p, q) < EPS_SQR, decided on the differences scaled by 1 / EPS:
\* a difference of EPS or more settles it, and the squares of smaller ones
\* are formed after the scaling, within the range of the integers.
SquareDistLtEpsSqr(p, q) ==
    LET dx == RAbs(RSub(p.x, q.x))
        dy == RAbs(RSub(p.y, q.y))
    IN  /\ RLt(dx, EPS)
        /\ RLt(dy, EPS)
        /\ RLt(RAdd(pow2(RMul(dx, R(EpsDen))), pow2(RMul(dy, R(EpsDen)))), One)

HasDuplicateVertices(verts) ==
    \E i \in 1..Len(verts) : \E j \in (i + 1)..Len(verts) :
        SquareDistLtEpsSqr(verts[i], verts[j])

\* The turns of the open vertex list only: the two turns through the first
\* vertex are taken as convex.
TurnAreaOpen(verts, i) ==
    IF i + 2 > Len(verts) THEN R(-1)
    ELSE signed_area(verts[i], verts[i + 1], verts[i + 2])

\* The signed area of the turn at vertices i, i + 1, i + 2 (indices cyclic).
TurnArea(verts, i) ==
    LET len == Len(verts)
    IN  signed_area(verts[i], verts[(i % len) + 1], verts[((i + 1) % len) + 1])

HasNonConvexTurn(verts) ==
    \E i \in 1..Len(verts) : RGe(TurnArea(verts, i), RNeg(EPS))

validate(verts) ==
    IF Len(verts) < 3 THEN Err(TooFewVertices(Len(verts)))
    ELSE IF HasDuplicateVertices(verts) THEN Err(DuplicateVertices)
    ELSE IF HasNonConvexTurn(verts) THEN Err(NotConvex)
    ELSE Ok(TRUE)

PolygonNew(verts) ==
    LET v == validate(verts)
    IN  IF v.ok THEN Ok(Polygon(verts)) ELSE v

\* The comparator of the sort: by x, then by y.
LessXY(a, b) == RLt(a.x, b.x) \/ (a.x = b.x /\ RLt(a.y, b.y))

\* Stable insertion of v into a sorted sequence, after the elements not greater.
RECURSIVE InsertSorted(_, _)
InsertSorted(sorted, v) ==
    IF sorted = <<>> THEN <<v>>
    ELSE IF LessXY(v, Head(sorted)) THEN <<v>> \o sorted
    ELSE <<Head(sorted)>> \o InsertSorted(Tail(sorted), v)

RECURSIVE SortXY(_)
SortXY(verts) ==
    IF verts = <<>> THEN <<>>
    ELSE InsertSorted(SortXY(SubSeq(verts, 1, Len(verts) - 1)), verts[Len(verts)])

Reverse(seq) == [i \in 1..Len(seq) |-> seq[Len(seq) + 1 - i]]

DropLast(seq) == SubSeq(seq, 1, Len(seq) - 1)

\* The turn test of the walk: pop while the turn is not strictly positive.
TurnPops(a, b, v) == RLe(signed_area(a, b, v), Zero)

\* The inner while loop of walk: pop while the last two points and v do not
\* turn strictly left.
RECURSIVE PopWhile(_, _)
PopWhile(boundary, v) ==
    IF Len(boundary) >= 2
       /\ TurnPops(boundary[Len(boundary) - 1], boundary[Len(boundary)], v)
    THEN PopWhile(DropLast(boundary), v)
    ELSE boundary

RECURSIVE WalkFrom(_, _)
WalkFrom(verts, boundary) ==
    IF verts = <<>> THEN boundary
    ELSE WalkFrom(Tail(verts), Append(PopWhile(boundary, Head(verts)), Head(verts)))

walk(verts) == WalkFrom(verts, <<>>)

\* The vertex list convex_hull hands to Polygon::new.
HullBoundary(verts) ==
    LET sorted == SortXY(verts)
    IN  DropLast(walk(sorted)) \o DropLast(walk(Reverse(sorted)))

convex_hull(verts) ==
    IF Len(verts) < 3 THEN Err(TooFewVertices(Len(verts)))
    ELSE PolygonNew(HullBoundary(verts))

-----------------------------------------------------------------------------
(* Inputs of convex_hull: every list of at most MaxPoints points of the    *)
(* integer grid 0..HullMaxX by 0..HullMaxY, repetitions included.          *)

MaxPoints == 4
HullMaxX == 2
HullMaxY == 2

HullPoints == {V(i, j) : i \in 0..HullMaxX, j \in 0..HullMaxY}

HullInputs == UNION {[1..k -> HullPoints] : k \in 0..MaxPoints}

HullInit ==
    /\ hullArgs \in HullInputs
    /\ hullRet = Pending
    /\ SatIdle
    /\ WorldIdle
    /\ CallIdle

CallConvexHull ==
    /\ ~hullRet.done
    /\ hullRet' = [done |-> TRUE, ret |-> convex_hull(hullArgs)]
    /\ UNCHANGED <<satArgs, satRet, hullArgs, world, reactArgs, stepArgs, pc,
                 callArgs, callRet, obj>>

HullNext == CallConvexHull

SpecHull == HullInit /\ [][HullNext]_vars

HullDone == hullRet.done

-----------------------------------------------------------------------------
(* Claims about convex_hull.                                               *)

Points(verts) == {verts[i] : i \in 1..Len(verts)}

\* All the points of the list lie on one line (or coincide).
Collinear(verts) ==
    \A i, j, k \in 1..Len(verts) :
        signed_area(verts[i], verts[j], verts[k]) = Zero

\* p is strictly on one side of the line through edge e of the boundary b.
SideOf(b, e, p) == signed_area(b[e], b[(e % Len(b)) + 1], p)

\* No point p is strictly outside an edge of b: p is never on the side of an
\* edge opposite to the one where the rest of the polygon lies.
OnOrInside(b, p) ==
    \/ \A e \in 1..Len(b) : RGe(SideOf(b, e, p), Zero)
    \/ \A e \in 1..Len(b) : RLe(SideOf(b, e, p), Zero)

\* Containment for the vertex list convex_hull builds: for every input that
\* spans an area (at least three points, not all on a line), no input point is
\* strictly outside an edge of the list handed to Polygon::new.
HullBoundaryContains ==
    (HullDone /\ Len(hullArgs) >= 3 /\ ~Collinear(hullArgs)) =>
        \A i \in 1..Len(hullArgs) :
            OnOrInside(HullBoundary(hullArgs), hullArgs[i])

\* convex_hull returns no polygon: the walk keeps the turns of strictly
\* positive signed area, validation accepts only turns below -EPS.
HullNeverReturnsPolygon == HullDone => ~hullRet.ret.ok

\* The four corners of the axis-aligned square of side s at (x, y), counter-
\* clockwise from the corner of lowest x and y.
SquareCorners(x, y, s) ==
    <<V(x, y), V(x + s, y), V(x + s, y + s), V(x, y + s)>>

IsSquareInput(verts, x, y, s) ==
    /\ s > 0
    /\ Len(verts) = 4
    /\ Points(verts) = Points(SquareCorners(x, y, s))

\* C9: given the four corners of a square in any order, convex_hull returns
\* the polygon with exactly those four points in counter-clockwise order.
C9_SquareHull ==
    \A x \in 0..HullMaxX, y \in 0..HullMaxY, s \in 1..HullMaxX :
        (HullDone /\ IsSquareInput(hullArgs, x, y, s)) =>
            hullRet.ret = Ok(Polygon(SquareCorners(x, y, s)))

\* C10: convex_hull returns an error exactly when it is given fewer than
\* three points, and the error carries the number of points given; for three
\* or more points it returns a polygon that passes polygon validation.
C10_HullErrors ==
    HullDone =>
        /\ (~hullRet.ret.ok) <=> (Len(hullArgs) < 3)
        /\ (~hullRet.ret.ok) => hullRet.ret.err = TooFewVertices(Len(hullArgs))
        /\ hullRet.ret.ok => validate(hullRet.ret.val.verts).ok

-----------------------------------------------------------------------------
(* Components and stores (components.rs, world.rs).  A store maps an       *)
(* entity to Some(component) or None; world.ents is the dense order of the *)
(* transform store.  Of a Transform only pos is kept: spawn and angle are  *)
(* not read by the collision core.                                         *)

Transform(pos) == [pos |-> pos]

RigidBody(vel, force, mass, rest) ==
    [vel |-> vel, force |-> force, mass |-> mass, inv_mass |-> RInv(mass),
     rest |-> rest]

Surface(elast, static_friction, kinetic_friction) ==
    [elast |-> elast, static_friction |-> static_friction,
     kinetic_friction |-> kinetic_friction]

Entities == {0, 1}

World(ents, transform, rigid_body, surface, shape) ==
    [ents |-> ents, transform |-> transform, rigid_body |-> rigid_body,
     surface |-> surface, shape |-> shape]

SetRest(w, entity) ==
    IF w.rigid_body[entity].some
    THEN [w EXCEPT !.rigid_body[entity].val.rest = TRUE]
    ELSE w

\* A store of velocities that gives a rigid_body of mass 1 to an entity that
\* has none.
SetVelOfAny(w, entity, vel) ==
    IF w.rigid_body[entity].some
    THEN [w EXCEPT !.rigid_body[entity].val.vel = vel]
    ELSE [w EXCEPT !.rigid_body[entity] =
                        Some([vel |-> vel, force |-> V(0, 0), mass |-> One,
                              inv_mass |-> One, rest |-> FALSE])]

SetVel(w, entity, vel) ==
    IF w.rigid_body[entity].some
    THEN [w EXCEPT !.rigid_body[entity].val.vel = vel]
    ELSE w

-----------------------------------------------------------------------------
(* compute_reaction (collisions.rs).                                       *)

\* 0.2: the largest |normal.x| of a contact that sets a rest flag.
RestNormalX == Frac(1, 5)
\* 0.6: the largest |vel.y| that is rounded to 0 after the impulse.
RoundVelY == Frac(3, 5)

\* update rest with the test of normal.x left out.
UpdateRestAnyNormal(w, entity_1, entity_2, normal) ==
    LET w1 == IF RGt(normal.y, Zero) THEN SetRest(w, entity_1) ELSE w
    IN  IF RLt(normal.y, Zero) THEN SetRest(w1, entity_2) ELSE w1

\* update rest: entity_1 when the normal points down, entity_2 when it points up.
UpdateRest(w, entity_1, entity_2, normal) ==
    IF RLe(RAbs(normal.x), RestNormalX)
    THEN LET w1 == IF RGt(normal.y, Zero) THEN SetRest(w, entity_1) ELSE w
         IN  IF RLt(normal.y, Zero) THEN SetRest(w1, entity_2) ELSE w1
    ELSE w

\* A closing test that returns only for a separation speed of 1 or more.
NotClosingAboveOne(normal_rel_vel_mag) == RGe(normal_rel_vel_mag, One)
\* The early return: the objects are not getting closer.
NotClosing(normal_rel_vel_mag) == RGe(normal_rel_vel_mag, EPS)

\* An impulse that ignores restitution.
ImpulseInelastic(elast, normal_rel_vel_mag, inv_mass_sum) ==
    RNeg(RDiv(normal_rel_vel_mag, inv_mass_sum))
\* J = -((1 + elast) * normal_rel_vel_mag / (inv_mass_1 + inv_mass_2))
Impulse(elast, normal_rel_vel_mag, inv_mass_sum) ==
    RNeg(RDiv(RMul(RAdd(One, elast), normal_rel_vel_mag), inv_mass_sum))

\* round y velocity to 0
RoundY(vel) == IF RLe(RAbs(vel.y), RoundVelY) THEN Vec2(vel.x, Zero) ELSE vel

\* A friction impulse that is always the kinetic one.
FrictionImpulseKinetic(slip, inv_mass_sum, static_friction, kinetic_friction, impulse) ==
    RNeg(RMul(kinetic_friction, RAbs(impulse)))

\* The friction impulse: static friction cancels all slip, else kinetic.
FrictionImpulse(slip, inv_mass_sum, static_friction, kinetic_friction, impulse) ==
    LET friction_impulse == RNeg(RDiv(slip, inv_mass_sum))
        max_static == RMul(static_friction, RAbs(impulse))
    IN  IF RLe(RAbs(friction_impulse), max_static)
        THEN friction_impulse
        ELSE RNeg(RMul(kinetic_friction, RAbs(impulse)))

compute_reaction(w, entity_1, entity_2, normal) ==
    LET w0 == UpdateRest(w, entity_1, entity_2, normal)
        surface_1 == w0.surface[entity_1].val
        surface_2 == w0.surface[entity_2].val
        elast == RMin(surface_1.elast, surface_2.elast)
        static_friction ==
            RSqrt(RMul(surface_1.static_friction, surface_2.static_friction))
        kinetic_friction ==
            RSqrt(RMul(surface_1.kinetic_friction, surface_2.kinetic_friction))
        dynamic_2 == w0.rigid_body[entity_2].some
        vel_1 == w0.rigid_body[entity_1].val.vel
        inv_mass_1 == w0.rigid_body[entity_1].val.inv_mass
        vel_2 == IF dynamic_2 THEN w0.rigid_body[entity_2].val.vel ELSE V(0, 0)
        inv_mass_2 == IF dynamic_2 THEN w0.rigid_body[entity_2].val.inv_mass ELSE Zero
        inv_mass_sum == RAdd(inv_mass_1, inv_mass_2)
        rel_vel == sub(vel_2, vel_1)
        normal_rel_vel_mag == dot(rel_vel, normal)
    IN  IF NotClosing(normal_rel_vel_mag) THEN w0
        ELSE
        LET impulse == Impulse(elast, normal_rel_vel_mag, inv_mass_sum)
            impulse_vector == scale(normal, impulse)
            new_vel_1 == RoundY(sub(vel_1, scale(impulse_vector, inv_mass_1)))
            new_vel_2 ==
                IF dynamic_2
                THEN RoundY(add(vel_2, scale(impulse_vector, inv_mass_2)))
                ELSE V(0, 0)
            w1 == SetVel(SetVel(w0, entity_1, new_vel_1), entity_2, new_vel_2)
            new_rel_vel == sub(new_vel_2, new_vel_1)
            new_normal_rel_vel_mag == dot(new_rel_vel, normal)
            tangent_rel_vel ==
                sub(new_rel_vel, scale(normal, new_normal_rel_vel_mag))
            tangent_rel_vel_mag == mag(tangent_rel_vel)
        IN  IF RLt(tangent_rel_vel_mag, EPS) THEN w1
            ELSE
            LET tangent_unit ==
                    scale(tangent_rel_vel, RDiv(One, tangent_rel_vel_mag))
                friction_impulse ==
                    FrictionImpulse(tangent_rel_vel_mag, inv_mass_sum,
                                    static_friction, kinetic_friction, impulse)
                friction_impulse_vector == scale(tangent_unit, friction_impulse)
                final_vel_1 ==
                    sub(new_vel_1, scale(friction_impulse_vector, inv_mass_1))
                final_vel_2 ==
                    add(new_vel_2, scale(friction_impulse_vector, inv_mass_2))
            IN  SetVel(SetVel(w1, entity_1, final_vel_1), entity_2, final_vel_2)

-----------------------------------------------------------------------------
(* Inputs of compute_reaction: entity 0 is dynamic, entity 1 is dynamic or *)
(* static (no rigid_body); velocities on a grid of step 1/2; a contact     *)
(* normal among four unit vectors.  A second family puts the two entities  *)
(* at a closing speed within EPS of zero along the normal (1, 0), a third   *)
(* has them still, in contact along a normal tilted from the vertical, a   *)
(* fourth gives both a surface with more kinetic than static friction, a   *)
(* fifth has them slip at a speed within EPS of zero along the normal      *)
(* (0, 1).                                                                 *)

MaxVelHalves == 2
MaxMass == 2

VelXs == {Frac(k, 2) : k \in (-MaxVelHalves)..MaxVelHalves}
VelYs == {Zero, Frac(1, 2), One}
Vels == {Vec2(x, y) : x \in VelXs, y \in VelYs}
Masses == {R(m) : m \in 1..MaxMass}

Surfaces ==
    {Surface(One, Zero, Zero),
     Surface(Frac(1, 2), One, Frac(1, 4)),
     Surface(One, Frac(1, 4), Frac(1, 4))}

Normals == {V(1, 0), V(0, 1), V(0, -1), Vec2(Frac(3, 5), Frac(4, 5))}

\* Unit normals tilted from the vertical by less than the threshold of the
\* resting test.
TiltedNormals ==
    {Vec2(Frac(11, 61), Frac(60, 61)), Vec2(Frac(-11, 61), Frac(-60, 61))}

\* A surface whose kinetic friction is larger than its static friction:
\* Surface::new takes any three numbers.
SlipperySurface == Surface(One, Zero, One)

\* Relative speeds along (1, 0) around the threshold of the closing test.
NearZeroSpeeds == {Frac(k, 2 * EpsDen) : k \in {-2, -1, 1, 2}}

UnitSquare == Rect(One, One)

Body(vel, mass) == Some(RigidBody(vel, V(0, 0), mass, FALSE))
Bodies == {Body(vel, mass) : vel \in Vels, mass \in Masses}
NearZeroBodies ==
    {Body(Vec2(x, y), mass) : x \in NearZeroSpeeds, y \in VelYs, mass \in Masses}
AtRestBodies == {Body(Vec2(Zero, y), mass) : y \in VelYs, mass \in Masses}
StillBodies == {Body(V(0, 0), mass) : mass \in Masses}

PairWorld(body_1, body_2, surface_1, surface_2) ==
    World(<<0, 1>>,
          [e \in Entities |-> Some(Transform(IF e = 0 THEN V(0, 0) ELSE V(1, 0)))],
          [e \in Entities |-> IF e = 0 THEN body_1 ELSE body_2],
          [e \in Entities |-> Some(IF e = 0 THEN surface_1 ELSE surface_2)],
          [e \in Entities |-> Some(UnitSquare)])

ReactStart(w, normal) ==
    /\ world = w
    /\ reactArgs = [entity_1 |-> 0, entity_2 |-> 1, normal |-> normal,
                    before |-> w]

ReactInit ==
    /\ \/ \E b1 \in Bodies, b2 \in Bodies \cup {None},
             s1 \in Surfaces, s2 \in Surfaces, n \in Normals :
               ReactStart(PairWorld(b1, b2, s1, s2), n)
       \/ \E b1 \in AtRestBodies, b2 \in NearZeroBodies,
             s1 \in Surfaces, s2 \in Surfaces :
               ReactStart(PairWorld(b1, b2, s1, s2), V(1, 0))
       \/ \E b1 \in StillBodies, b2 \in StillBodies \cup {None},
             s1 \in Surfaces, s2 \in Surfaces, n \in TiltedNormals :
               ReactStart(PairWorld(b1, b2, s1, s2), n)
       \/ \E b1 \in Bodies, b2 \in Bodies \cup {None} :
               ReactStart(PairWorld(b1, b2, SlipperySurface, SlipperySurface),
                          V(1, 0))
       \/ \E b1 \in AtRestBodies, b2 \in NearZeroBodies,
             s1 \in Surfaces, s2 \in Surfaces :
               ReactStart(PairWorld(b1, b2, s1, s2), V(0, 1))
    /\ stepArgs = <<>>
    /\ pc = "compute_reaction"
    /\ SatIdle
    /\ HullIdle
    /\ CallIdle

CallComputeReaction ==
    /\ pc = "compute_reaction"
    /\ world' = compute_reaction(world, reactArgs.entity_1, reactArgs.entity_2,
                                 reactArgs.normal)
    /\ pc' = "reacted"
    /\ StepFrame

ReactNext == CallComputeReaction

SpecReact == ReactInit /\ [][ReactNext]_vars

Reacted == pc = "reacted"

-----------------------------------------------------------------------------
(* Claims about compute_reaction.                                          *)

VelOf(w, entity) ==
    IF w.rigid_body[entity].some THEN w.rigid_body[entity].val.vel ELSE V(0, 0)

\* The component along the normal of the velocity of entity_2 relative to
\* entity_1 before the call, a static entity counting as velocity zero.
ClosingSpeed ==
    dot(sub(VelOf(reactArgs.before, reactArgs.entity_2),
            VelOf(reactArgs.before, reactArgs.entity_1)),
        reactArgs.normal)

VelocitiesUnchanged ==
    \A e \in Entities : VelOf(world, e) = VelOf(reactArgs.before, e)

Frictionless(surface) ==
    surface.static_friction = Zero /\ surface.kinetic_friction = Zero

\* Two dynamic entities of equal mass, restitution 1 and no friction, moving
\* at (+v, 0) and (-v, 0) with v > 0, in contact along the normal (1, 0).
HeadOn(w, normal, v) ==
    /\ normal = V(1, 0)
    /\ RGt(v, Zero)
    /\ \A e \in Entities :
        /\ w.rigid_body[e].some
        /\ w.surface[e].val.elast = One
        /\ Frictionless(w.surface[e].val)
    /\ w.rigid_body[0].val.mass = w.rigid_body[1].val.mass
    /\ w.rigid_body[0].val.vel = Vec2(v, Zero)
    /\ w.rigid_body[1].val.vel = Vec2(RNeg(v), Zero)

\* C4: two dynamic entities of equal mass, restitution 1 and zero friction,
\* approaching head-on with velocities (+v, 0) and (-v, 0), leave one call of
\* compute_reaction with normal (1, 0) with their velocities swapped.
C4_ElasticExchange ==
    \A v \in VelXs :
        (Reacted /\ HeadOn(reactArgs.before, reactArgs.normal, v)) =>
            /\ world.rigid_body[0].val.vel = Vec2(RNeg(v), Zero)
            /\ world.rigid_body[1].val.vel = Vec2(v, Zero)

C4_Witness ==
    /\ Reacted
    /\ HeadOn(reactArgs.before, reactArgs.normal, Frac(1, 2))
    /\ reactArgs.before.rigid_body[0].val.mass = R(2)
    /\ world.rigid_body[0].val.vel = Vec2(Frac(-1, 2), Zero)

\* C5 as stated: when the closing speed is >= -EPS, compute_reaction leaves
\* the velocities of both entities as they were.
C5_NoImpulseFromMinusEps ==
    (Reacted /\ RGe(ClosingSpeed, RNeg(EPS))) => VelocitiesUnchanged

\* C5: when the closing speed is >= +EPS (the entities are separating),
\* compute_reaction applies no impulse: the velocities of both entities after
\* the call equal their velocities before it.
C5_NoImpulseWhenSeparating ==
    (Reacted /\ RGe(ClosingSpeed, EPS)) => VelocitiesUnchanged

\* A separating pair, one at the threshold EPS itself, whose vertical
\* velocity of 1/2 would be rounded to 0 had the call gone on.
C5_Witness ==
    /\ Reacted
    /\ ClosingSpeed = EPS
    /\ reactArgs.before.rigid_body[1].val.vel.y = Frac(1, 2)
    /\ VelocitiesUnchanged

-----------------------------------------------------------------------------
(* generate_swept_shape and the solver loop (collisions.rs).  A call that  *)
(* aborts on a failed expect is the result Panic.                          *)

Panic == [panic |-> TRUE]
Swept(swept_shape) == [panic |-> FALSE, swept |-> swept_shape]

\* convex_hull(verts).expect("we passed more than 3 verts")
ExpectHull(verts) ==
    LET hull == convex_hull(verts)
    IN  IF hull.ok THEN Swept(Moved(hull.val)) ELSE Panic

\* pos_1 + v and pos_2 + v for each vertex v of the polygon, interleaved.
PolygonSweepVerts(pos_1, pos_2, verts) ==
    [i \in 1..(2 * Len(verts)) |->
        IF i % 2 = 1 THEN add(pos_1, verts[(i + 1) \div 2])
        ELSE add(pos_2, verts[i \div 2])]

RectSweepVerts(pos_1, pos_2, rect) ==
    <<pos_1,
      add(pos_1, Vec2(rect.width, Zero)),
      add(pos_1, Vec2(Zero, rect.height)),
      add(pos_1, Vec2(rect.width, rect.height)),
      pos_2,
      add_scalar(pos_2, rect.width, Zero),
      add_scalar(pos_2, Zero, rect.height),
      add_scalar(pos_2, rect.width, rect.height)>>

generate_swept_shape(pos_1, pos_2, shape) ==
    IF ~GtEpsSqr(square_dist(pos_1, pos_2))
    THEN Swept(Unmoved(shape, pos_1))
    ELSE CASE shape.kind = "Segment" ->
                ExpectHull(<<add(pos_1, shape.a), add(pos_1, shape.b),
                             add(pos_2, shape.a), add(pos_2, shape.b)>>)
           [] shape.kind = "Triangle" ->
                ExpectHull(<<add(pos_1, shape.a), add(pos_1, shape.b),
                             add(pos_1, shape.c), add(pos_2, shape.a),
                             add(pos_2, shape.b), add(pos_2, shape.c)>>)
           [] shape.kind = "Rect" ->
                IF RLe(RAbs(RSub(pos_1.x, pos_2.x)), EPS)
                THEN \* vertical-only movement
                     Swept(AxisRect(
                         Rect(shape.width,
                              RAdd(RAbs(RSub(pos_1.y, pos_2.y)), shape.height)),
                         Vec2(pos_1.x, RMin(pos_1.y, pos_2.y))))
                ELSE IF RLe(RAbs(RSub(pos_1.y, pos_2.y)), EPS)
                THEN \* horizontal-only movement
                     Swept(AxisRect(
                         Rect(RAdd(RAbs(RSub(pos_1.x, pos_2.x)), shape.width),
                              shape.height),
                         Vec2(RMin(pos_1.x, pos_2.x), pos_1.y)))
                ELSE ExpectHull(RectSweepVerts(pos_1, pos_2, shape))
           [] shape.kind = "Polygon" ->
                ExpectHull(PolygonSweepVerts(pos_1, pos_2, shape.verts))

\* entity has all the components of a dynamic object.
IsDynamicObject(w, entity) ==
    /\ w.transform[entity].some
    /\ w.rigid_body[entity].some
    /\ w.surface[entity].some
    /\ w.shape[entity].some

\* entity has all the components of an object that is at least static.
IsObject(w, entity) ==
    /\ w.transform[entity].some
    /\ w.surface[entity].some
    /\ w.shape[entity].some

Resolved(w, solved) == [world |-> w, solved |-> solved, panic |-> FALSE]
Aborted(w) == [world |-> w, solved |-> FALSE, panic |-> TRUE]

\* The element of a singleton.  The({F(x) : x \in {e}}) is F(e) with e
\* evaluated once, whatever the number of uses of x in F.
The(S) == CHOOSE x \in S : TRUE

\* The body of the loop of resolve_obj_collisions for one entity_2: the swept
\* shapes, the collision test, and the reaction on a hit.
ResolvePair(w, entity_1, pos_1, entity_2) ==
    LET pos_2 == w.transform[entity_2].val.pos
        shape_2 == w.shape[entity_2].val
        vel_1 == w.rigid_body[entity_1].val.vel
        shape_1 == w.shape[entity_1].val
        swept_shape_1 == generate_swept_shape(pos_1, add(pos_1, vel_1), shape_1)
        swept_shape_2 ==
            IF ~w.rigid_body[entity_2].some
            THEN generate_swept_shape(pos_2, pos_2, shape_2)
            ELSE generate_swept_shape(
                     pos_2, add(pos_2, w.rigid_body[entity_2].val.vel), shape_2)
    IN  The({IF s[1].panic \/ s[2].panic THEN Aborted(w)
             ELSE The({IF normal.some
                       THEN Resolved(compute_reaction(w, entity_1, entity_2,
                                                      normal.val), FALSE)
                       ELSE Resolved(w, TRUE) :
                       normal \in {check_collision(s[1].swept, s[2].swept)}}) :
             s \in {<<swept_shape_1, swept_shape_2>>}})

\* The loop of resolve_obj_collisions over ents, from index i on.
RECURSIVE ResolveAgainst(_, _, _, _, _, _)
ResolveAgainst(w, entity_1, pos_1, ents, i, solved) ==
    IF i > Len(ents) THEN Resolved(w, solved)
    ELSE IF entity_1 = ents[i] \/ ~IsObject(w, ents[i])
    THEN ResolveAgainst(w, entity_1, pos_1, ents, i + 1, solved)
    ELSE The({IF r.panic THEN r
              ELSE ResolveAgainst(r.world, entity_1, pos_1, ents, i + 1,
                                  solved /\ r.solved) :
              r \in {ResolvePair(w, entity_1, pos_1, ents[i])}})

\* A resolve_obj_collisions that reports solved whatever it detected.
resolve_obj_collisions_solved(w, entity_1, ents) ==
    IF ~IsDynamicObject(w, entity_1) THEN Resolved(w, TRUE)
    ELSE [ResolveAgainst(w, entity_1, w.transform[entity_1].val.pos, ents, 1,
                         TRUE) EXCEPT !.solved = TRUE]

resolve_obj_collisions(w, entity_1, ents) ==
    IF ~IsDynamicObject(w, entity_1) THEN Resolved(w, TRUE)
    ELSE ResolveAgainst(w, entity_1, w.transform[entity_1].val.pos, ents, 1, TRUE)

\* Stable insertion of entity into a sequence sorted by the y of its position.
RECURSIVE InsertByY(_, _, _)
InsertByY(w, sorted, entity) ==
    IF sorted = <<>> THEN <<entity>>
    ELSE IF RLt(w.transform[entity].val.pos.y,
                w.transform[Head(sorted)].val.pos.y)
    THEN <<entity>> \o sorted
    ELSE <<Head(sorted)>> \o InsertByY(w, Tail(sorted), entity)

RECURSIVE SortByY(_, _)
SortByY(w, ents) ==
    IF ents = <<>> THEN <<>>
    ELSE InsertByY(w, SortByY(w, SubSeq(ents, 1, Len(ents) - 1)), ents[Len(ents)])

sort_objs_by_y(w) == SortByY(w, w.ents)

\* One pass of the solver over ents, from index i on.
RECURSIVE SolverPass(_, _, _, _)
SolverPass(w, ents, i, solved) ==
    IF i > Len(ents) THEN Resolved(w, solved)
    ELSE The({IF r.panic THEN r
              ELSE SolverPass(r.world, ents, i + 1, solved /\ r.solved) :
              r \in {resolve_obj_collisions(w, ents[i], ents)}})

\* for _ in 0..iters, with iters passes left.
RECURSIVE SolverLoop(_, _, _)
SolverLoop(w, ents, iters) ==
    IF iters = 0 THEN Resolved(w, FALSE)
    ELSE The({IF r.panic \/ r.solved THEN r
              ELSE SolverLoop(r.world, ents, iters - 1) :
              r \in {SolverPass(w, ents, 1, TRUE)}})

resolve_collisions(w, sort, iters) ==
    The({SolverLoop(w, ents, iters) :
         ents \in {IF sort THEN sort_objs_by_y(w) ELSE w.ents}})

-----------------------------------------------------------------------------
(* The per-step functions of physics.rs.                                   *)

\* The resting flags left as they are.
keep_rest(w) == w

\* for (_, rigid_body) in world.rigid_body.iter_mut()
reset_rest(w) ==
    [w EXCEPT !.rigid_body =
        [e \in Entities |->
            IF w.rigid_body[e].some
            THEN Some([w.rigid_body[e].val EXCEPT !.rest = FALSE])
            ELSE None]]

reset_force(w, new_force) ==
    [w EXCEPT !.rigid_body =
        [e \in Entities |->
            IF w.rigid_body[e].some
            THEN Some([w.rigid_body[e].val EXCEPT
                          !.force = scale(new_force, w.rigid_body[e].val.mass)])
            ELSE None]]

update_vel(w) ==
    [w EXCEPT !.rigid_body =
        [e \in Entities |->
            IF w.rigid_body[e].some
            THEN Some([w.rigid_body[e].val EXCEPT
                          !.vel = add(w.rigid_body[e].val.vel,
                                      scale(w.rigid_body[e].val.force,
                                            w.rigid_body[e].val.inv_mass))])
            ELSE None]]

update_pos(w) ==
    [w EXCEPT !.transform =
        [e \in Entities |->
            IF w.transform[e].some /\ w.rigid_body[e].some
            THEN Some([pos |-> add(w.transform[e].val.pos,
                                   w.rigid_body[e].val.vel)])
            ELSE w.transform[e]]]

-----------------------------------------------------------------------------
(* The driver's step on a box above a static floor: reset_force with a     *)
(* downward force (y grows downwards), update_vel, reset_rest,             *)
(* resolve_collisions, update_pos, repeated.  The box is entity 0, of mass *)
(* 1 and restitution 1/2, at rest at (0, 0); the floor is entity 1, which  *)
(* has no rigid_body, its top a gap below the bottom of the box.           *)

MaxGap == 2
MaxIters == 3

Gravities == {Frac(1, 4), Frac(1, 2), One}

Box == Rect(R(4), R(2))
Floor == Rect(R(12), R(2))
BoxSurface == Surface(Frac(1, 2), One, Frac(1, 4))
FloorSurfaces == {Surface(One, One, Frac(1, 4)), Surface(Frac(1, 2), Zero, Zero)}

BoxWorld(ents, gap, floor_surface) ==
    World(ents,
          [e \in Entities |->
              Some(Transform(IF e = 0 THEN V(0, 0) ELSE V(-4, 2 + gap)))],
          [e \in Entities |->
              IF e = 0 THEN Some(RigidBody(V(0, 0), V(0, 0), One, FALSE)) ELSE None],
          [e \in Entities |-> Some(IF e = 0 THEN BoxSurface ELSE floor_surface)],
          [e \in Entities |-> Some(IF e = 0 THEN Box ELSE Floor)])

StepInit ==
    /\ \E ents \in {<<0, 1>>, <<1, 0>>}, gap \in 0..MaxGap,
          floor_surface \in FloorSurfaces :
            world = BoxWorld(ents, gap, floor_surface)
    /\ \E g \in Gravities, sort \in BOOLEAN, iters \in 1..MaxIters :
            stepArgs = [force |-> Vec2(Zero, g), sort |-> sort, iters |-> iters]
    /\ reactArgs = <<>>
    /\ pc = "reset_force"
    /\ SatIdle
    /\ HullIdle
    /\ CallIdle

CallResetForce ==
    /\ pc = "reset_force"
    /\ world' = reset_force(world, stepArgs.force)
    /\ pc' = "update_vel"
    /\ StepFrame

CallUpdateVel ==
    /\ pc = "update_vel"
    /\ world' = update_vel(world)
    /\ pc' = "reset_rest"
    /\ StepFrame

\* The stores as they were before the flags were cleared are kept in callArgs.
CallResetRest ==
    /\ pc = "reset_rest"
    /\ world' = reset_rest(world)
    /\ callArgs' = [before |-> world]
    /\ pc' = "resolve_collisions"
    /\ UNCHANGED <<satArgs, satRet, hullArgs, hullRet, reactArgs, stepArgs,
                   callRet, obj>>

CallResolveCollisions ==
    /\ pc = "resolve_collisions"
    /\ \E r \in {resolve_collisions(world, stepArgs.sort, stepArgs.iters)} :
        /\ world' = r.world
        /\ pc' = IF r.panic THEN "panicked" ELSE "update_pos"
    /\ StepFrame

CallUpdatePos ==
    /\ pc = "update_pos"
    /\ world' = update_pos(world)
    /\ pc' = "reset_force"
    /\ StepFrame

StepNext ==
    \/ CallResetForce
    \/ CallUpdateVel
    \/ CallResetRest
    \/ CallResolveCollisions
    \/ CallUpdatePos

SpecStep == StepInit /\ [][StepNext]_vars

\* The calls that can follow the call at position p of the step.
NextCalls(p) ==
    CASE p = "reset_force" -> {"update_vel"}
      [] p = "update_vel" -> {"reset_rest"}
      [] p = "reset_rest" -> {"resolve_collisions"}
      [] p = "resolve_collisions" -> {"update_pos", "panicked"}
      [] p = "update_pos" -> {"reset_force"}
      [] OTHER -> {}

\* The driver goes on to the next call.  Every step of StepNext is such a
\* step and one is possible exactly when a step of StepNext is.
Advance == pc' \in NextCalls(pc)

\* The driver's loop never stops stepping.
FairStep == SpecStep /\ WF_pc(Advance)

-----------------------------------------------------------------------------
(* Claims about the step.                                                  *)

BoxBody == world.rigid_body[0].val

BoxSettled == BoxBody.vel.y = Zero /\ BoxBody.rest

\* A step has been completed and the next one has not begun.
BetweenSteps == pc = "reset_force"

\* C6: the box, stepped repeatedly under the constant downward force,
\* eventually is, at the end of a step, in a state in which its vertical
\* velocity is exactly 0 and its resting flag is true.
C6_RestingSettle == <>(BetweenSteps /\ BoxSettled)

-----------------------------------------------------------------------------
(* Inputs of generate_swept_shape: a shape of LocalShapes carried from one *)
(* point of the integer grid 0..SweptMaxX by 0..SweptMaxY to another.      *)

SweptMaxX == 2
SweptMaxY == 2

SweptPositions == {V(i, j) : i \in 0..SweptMaxX, j \in 0..SweptMaxY}

SweptInit ==
    /\ \E pos_1 \in SweptPositions, pos_2 \in SweptPositions,
          shape \in LocalShapes :
            callArgs = [pos_1 |-> pos_1, pos_2 |-> pos_2, shape |-> shape]
    /\ callRet = Pending
    /\ obj = <<>>
    /\ SatIdle
    /\ HullIdle
    /\ WorldIdle

CallGenerateSweptShape ==
    /\ ~callRet.done
    /\ callRet' = [done |-> TRUE,
                   ret |-> generate_swept_shape(callArgs.pos_1, callArgs.pos_2,
                                                callArgs.shape)]
    /\ UNCHANGED <<satArgs, satRet, hullArgs, hullRet, world, reactArgs,
                   stepArgs, pc, callArgs, obj>>

SweptNext == CallGenerateSweptShape

SpecSwept == SweptInit /\ [][SweptNext]_vars

-----------------------------------------------------------------------------
(* Claims about generate_swept_shape.                                      *)

\* The vertices of a shape, in its local coordinates.
ShapeVerts(shape) ==
    CASE shape.kind = "Segment" -> <<shape.a, shape.b>>
      [] shape.kind = "Triangle" -> <<shape.a, shape.b, shape.c>>
      [] shape.kind = "Rect" ->
            <<V(0, 0), Vec2(shape.width, Zero), Vec2(Zero, shape.height),
              Vec2(shape.width, shape.height)>>
      [] shape.kind = "Polygon" -> shape.verts

InHitBox(hb, p) ==
    /\ RLe(hb.min_x, p.x) /\ RLe(p.x, hb.max_x)
    /\ RLe(hb.min_y, p.y) /\ RLe(p.y, hb.max_y)

\* C11: for every shape and every pair of start and end positions,
\* generate_swept_shape completes without aborting, and the hit box of the
\* swept shape it returns contains every vertex of the shape placed at the
\* start position and every vertex of the shape placed at the end position.
C11_SweptContainment ==
    callRet.done =>
        /\ ~callRet.ret.panic
        /\ \A pos \in {callArgs.pos_1, callArgs.pos_2} :
            \A v \in Range(ShapeVerts(callArgs.shape)) :
                InHitBox(SweptHitBox(callRet.ret.swept), add(pos, v))

\* The same with the aborting calls left out: what the calls that return
\* do return.
SweptContainmentWhenReturned ==
    (callRet.done /\ ~callRet.ret.panic) =>
        \A pos \in {callArgs.pos_1, callArgs.pos_2} :
            \A v \in Range(ShapeVerts(callArgs.shape)) :
                InHitBox(SweptHitBox(callRet.ret.swept), add(pos, v))

\* A segment carried along its own direction: the four points handed to
\* convex_hull are collinear.
SweptCollinearAborts ==
    /\ callRet.done
    /\ callArgs.shape = SegmentH
    /\ callArgs.pos_1 = V(0, 0)
    /\ callArgs.pos_2 = V(1, 0)
    /\ callRet.ret.panic

-----------------------------------------------------------------------------
(* Inputs of Polygon::new (geometry.rs): every list of at most             *)
(* PolyMaxVerts points among five points of the integer grid, one of them  *)
(* inside the triangle of three others, and three points at EPS / 2, EPS   *)
(* and 2 EPS from the origin.                                              *)

PolyMaxVerts == 4

PolygonPoints ==
    {V(0, 0), V(0, 1), V(1, 2), V(2, 0), V(1, 1)}
        \cup {Vec2(Frac(k, 2 * EpsDen), Zero) : k \in {1, 2, 4}}

PolygonInputs == UNION {[1..k -> PolygonPoints] : k \in 0..PolyMaxVerts}

PolygonInit ==
    /\ \E verts \in PolygonInputs : callArgs = [verts |-> verts]
    /\ callRet = Pending
    /\ obj = <<>>
    /\ SatIdle
    /\ HullIdle
    /\ WorldIdle

CallPolygonNew ==
    /\ ~callRet.done
    /\ callRet' = [done |-> TRUE, ret |-> PolygonNew(callArgs.verts)]
    /\ UNCHANGED <<satArgs, satRet, hullArgs, hullRet, world, reactArgs,
                   stepArgs, pc, callArgs, obj>>

PolygonNext == CallPolygonNew

SpecPolygon == PolygonInit /\ [][PolygonNext]_vars

-----------------------------------------------------------------------------
(* Claims about Polygon::new.                                              *)

\* Two of the vertices are less than EPS apart.
Coincide(verts) ==
    \E i \in 1..Len(verts), j \in 1..Len(verts) :
        i # j /\ SquareDistLtEpsSqr(verts[i], verts[j])

\* The vertex after vertex i, cyclically.
Succ(verts, i) == IF i = Len(verts) THEN 1 ELSE i + 1

\* Some cyclically consecutive triple has signed area >= -EPS.
SomeTurnNotBelowMinusEps(verts) ==
    \E i \in 1..Len(verts) :
        LET j == Succ(verts, i)
            k == Succ(verts, j)
        IN  ~RLt(signed_area(verts[i], verts[j], verts[k]), RNeg(EPS))

\* p lies strictly inside the triangle a, b, c.
StrictlyInside(p, a, b, c) ==
    LET s1 == signed_area(a, b, p)
        s2 == signed_area(b, c, p)
        s3 == signed_area(c, a, p)
    IN  \/ RGt(s1, Zero) /\ RGt(s2, Zero) /\ RGt(s3, Zero)
        \/ RLt(s1, Zero) /\ RLt(s2, Zero) /\ RLt(s3, Zero)

\* Four vertices, one of them strictly inside the triangle of the others.
IsDart(verts) ==
    /\ Len(verts) = 4
    /\ \E i \in 1..4 :
        LET j == Succ(verts, i)
            k == Succ(verts, j)
            l == Succ(verts, k)
        IN  StrictlyInside(verts[i], verts[j], verts[k], verts[l])

-----------------------------------------------------------------------------
(* A shape value of geometry.rs under its public operations: obj is None   *)
(* before a constructor has returned a shape and Some(shape) afterwards.   *)

ShapeMaxVerts == 4

ShapeSides == {R(-1), Zero, One, R(2)}
ShapePoints == {V(0, 0), V(0, 1), V(2, 0)}
ShapeVertLists == UNION {[1..k -> ShapePoints] : k \in 2..3}

NonPositive(field) == [kind |-> "NonPositive", field |-> field]

\* Rect::validate
RectValidate(rect) ==
    IF RLe(rect.width, Zero) THEN Err(NonPositive("width"))
    ELSE IF RLe(rect.height, Zero) THEN Err(NonPositive("height"))
    ELSE Ok(TRUE)

\* Rect::new
RectNew(width, height) ==
    LET v == RectValidate(Rect(width, height))
    IN  IF v.ok THEN Ok(Rect(width, height)) ELSE v

\* The validation predicate of the shape's own type.
ShapeValidate(shape) ==
    CASE shape.kind = "Rect" -> RectValidate(shape)
      [] shape.kind = "Polygon" -> validate(shape.verts)

ShapeInit ==
    /\ obj = None
    /\ callArgs = <<>>
    /\ callRet = Pending
    /\ SatIdle
    /\ HullIdle
    /\ WorldIdle

ShapeFrame ==
    UNCHANGED <<satArgs, satRet, hullArgs, hullRet, world, reactArgs, stepArgs,
                pc, callRet>>

\* A constructor that validates: the shape exists only when it returned Ok.
Construct(op, ret) ==
    /\ callArgs' = [op |-> op]
    /\ obj' = IF ret.ok THEN Some(ret.val) ELSE None
    /\ ShapeFrame

\* A method of an existing shape that stores new_shape in its place.
Mutate(op, new_shape) ==
    /\ callArgs' = [op |-> op]
    /\ obj' = Some(new_shape)
    /\ ShapeFrame

CallRectNew ==
    /\ ~obj.some
    /\ \E width \in ShapeSides, height \in ShapeSides :
        Construct("Rect::new", RectNew(width, height))

CallSetWidth ==
    /\ obj.some
    /\ obj.val.kind = "Rect"
    /\ \E new_width \in ShapeSides :
        Mutate("Rect::set_width", [obj.val EXCEPT !.width = new_width])

CallSetHeight ==
    /\ obj.some
    /\ obj.val.kind = "Rect"
    /\ \E new_height \in ShapeSides :
        Mutate("Rect::set_height", [obj.val EXCEPT !.height = new_height])

CallNewPolygon ==
    /\ ~obj.some
    /\ \E verts \in ShapeVertLists :
        Construct("Polygon::new", PolygonNew(verts))

CallNewUnchecked ==
    /\ ~obj.some
    /\ \E verts \in ShapeVertLists :
        Mutate("Polygon::new_unchecked", Polygon(verts))

CallSetVerts ==
    /\ obj.some
    /\ obj.val.kind = "Polygon"
    /\ \E new_verts \in ShapeVertLists :
        Mutate("Polygon::set_verts", Polygon(new_verts))

\* polygon.verts_mut().push(v)
CallVertsMutPush ==
    /\ obj.some
    /\ obj.val.kind = "Polygon"
    /\ Len(obj.val.verts) < ShapeMaxVerts
    /\ \E v \in ShapePoints :
        Mutate("Polygon::verts_mut", Polygon(Append(obj.val.verts, v)))

ShapeNext ==
    \/ CallRectNew
    \/ CallSetWidth
    \/ CallSetHeight
    \/ CallNewPolygon
    \/ CallNewUnchecked
    \/ CallSetVerts
    \/ CallVertsMutPush

SpecShape == ShapeInit /\ [][ShapeNext]_vars

-----------------------------------------------------------------------------
(* Claims about the shape values.                                          *)

\* C13: after any sequence of public operations on a shape value, the shape
\* that exists satisfies the validation predicate of its own type.
C13_ShapesStayValid == obj.some => ShapeValidate(obj.val).ok

\* Constructors that validate do return valid shapes only.
ValidWhenConstructed ==
    (obj.some /\ callArgs.op \in {"Rect::new", "Polygon::new"}) =>
        ShapeValidate(obj.val).ok

\* A Rect built valid and then given the width 0 by set_width.
RectOfWidthZero ==
    /\ obj = Some(Rect(Zero, One))
    /\ callArgs.op = "Rect::set_width"

-----------------------------------------------------------------------------
(* resolve_collisions, one pass of its loop at a time, on the box and the  *)
(* floor of BoxWorld: the box moving, the floor static or dynamic, and one *)
(* component of one of the two possibly missing.  The locals of the call   *)
(* (ents, the number of passes made, solved of the last pass) are in obj,  *)
(* with one history field: stable, whether the last pass left the stores   *)
(* as they were.                                                           *)

SolveVels == {V(0, 0), V(0, 1), V(0, -1), V(1, 1)}
SolveFloorBodies == {None, Body(V(0, 0), One), Body(V(0, -1), One)}
Missing ==
    {"none", "box transform", "box surface", "box shape",
     "floor surface", "floor shape"}

\* w without the component that missing names.
Lacking(w, missing) ==
    CASE missing = "none" -> w
      [] missing = "box transform" ->
            [w EXCEPT !.transform[0] = None,
                      !.ents = SelectSeq(w.ents, LAMBDA e : e # 0)]
      [] missing = "box surface" -> [w EXCEPT !.surface[0] = None]
      [] missing = "box shape" -> [w EXCEPT !.shape[0] = None]
      [] missing = "floor surface" -> [w EXCEPT !.surface[1] = None]
      [] missing = "floor shape" -> [w EXCEPT !.shape[1] = None]

SolveWorld(ents, gap, box_vel, floor_body, missing) ==
    LET w == BoxWorld(ents, gap, Surface(One, One, Frac(1, 4)))
    IN  Lacking([w EXCEPT !.rigid_body =
                    [e \in Entities |-> IF e = 0 THEN Body(box_vel, One)
                                        ELSE floor_body]],
                missing)

SolveInit ==
    /\ \E ents \in {<<0, 1>>, <<1, 0>>}, gap \in 0..MaxGap,
          box_vel \in SolveVels, floor_body \in SolveFloorBodies,
          missing \in Missing :
            /\ world = SolveWorld(ents, gap, box_vel, floor_body, missing)
            /\ callArgs = [before |-> world]
    /\ \E sort \in BOOLEAN, iters \in 0..MaxIters :
            stepArgs = [sort |-> sort, iters |-> iters]
    /\ reactArgs = <<>>
    /\ pc = "resolve_collisions"
    /\ callRet = Pending
    /\ obj = <<>>
    /\ SatIdle
    /\ HullIdle

SolveFrame ==
    UNCHANGED <<satArgs, satRet, hullArgs, hullRet, reactArgs, stepArgs,
                callArgs, callRet>>

\* The loop goes on only when the pass was solved: the loop never breaks.
NeverBreak(solved) == FALSE

\* if solved { break; }
Break(solved) == solved

\* let ents = if sort { sort_objs_by_y(world) } else { get_ents() }
SolverEnter ==
    /\ pc = "resolve_collisions"
    /\ obj' = [ents |-> IF stepArgs.sort THEN sort_objs_by_y(world)
                        ELSE world.ents,
               passes |-> 0, solved |-> FALSE, stable |-> FALSE]
    /\ pc' = "loop"
    /\ UNCHANGED world
    /\ SolveFrame

\* One iteration of for _ in 0..iters.
SolverIterate ==
    /\ pc = "loop"
    /\ obj.passes < stepArgs.iters
    /\ \E r \in {SolverPass(world, obj.ents, 1, TRUE)} :
        /\ world' = r.world
        /\ obj' = [obj EXCEPT !.passes = @ + 1, !.solved = r.solved,
                              !.stable = (r.world = world)]
        /\ pc' = IF r.panic THEN "panicked"
                 ELSE IF Break(r.solved) THEN "returned" ELSE "loop"
    /\ SolveFrame

\* The range 0..iters is used up.
SolverExhausted ==
    /\ pc = "loop"
    /\ obj.passes >= stepArgs.iters
    /\ pc' = "returned"
    /\ UNCHANGED <<world, obj>>
    /\ SolveFrame

SolveNext ==
    \/ SolverEnter
    \/ SolverIterate
    \/ SolverExhausted

SpecSolve == SolveInit /\ [][SolveNext]_vars

\* The call goes on: every step of SolveNext is such a step, and one is
\* possible wherever the call has not ended.
SolveAdvance ==
    /\ pc \in {"resolve_collisions", "loop"}
    /\ pc' \in {"loop", "returned", "panicked"}
    /\ obj' \in IF pc = "loop"
                THEN {[obj EXCEPT !.passes = @ + k, !.solved = b, !.stable = c] :
                        k \in {0, 1}, b \in BOOLEAN, c \in BOOLEAN}
                ELSE {[ents |-> e, passes |-> 0, solved |-> FALSE,
                       stable |-> FALSE] :
                        e \in {<<>>, <<0>>, <<1>>, <<0, 1>>, <<1, 0>>}}

\* The program never stops in the middle of a call.
FairSolve == SpecSolve /\ WF_<<pc, obj>>(SolveAdvance)

-----------------------------------------------------------------------------
(* Claims about the loop of resolve_collisions.                            *)

SolverEnded == pc \in {"returned", "panicked"}

\* Some pair was detected as colliding in the last pass.
PairsStillCollide == obj.passes > 0 /\ ~obj.solved

\* No more than iters passes; no pass after a pass without a colliding pair;
\* a return only after such a pass or with the passes used up.
SolverBounded ==
    pc # "resolve_collisions" =>
        /\ obj.passes <= stepArgs.iters
        /\ (pc = "loop" /\ obj.passes > 0) => PairsStillCollide
        /\ pc = "returned" => (obj.solved \/ obj.passes = stepArgs.iters)
        /\ (pc = "returned" /\ obj.solved) => obj.passes >= 1

\* The world a call leaves is the one the function resolve_collisions gives.
SolverAgrees ==
    SolverEnded =>
        world = resolve_collisions(callArgs.before, stepArgs.sort,
                                   stepArgs.iters).world

\* C14: resolve_collisions(world, sort, iters) always ends, having made at
\* most iters passes; it makes no pass after the first pass in which no pair
\* was detected as colliding; and when the passes are used up while pairs
\* still collide it returns.
C14_SolverTerminates ==
    /\ []SolverBounded
    /\ <>SolverEnded
    /\ [](obj # <<>> =>
            ((pc = "loop" /\ obj.passes = stepArgs.iters /\ PairsStillCollide)
                ~> pc = "returned"))

\* The passes used up with the box still lying on the floor.
C14_Witness ==
    /\ pc = "returned"
    /\ stepArgs.iters = 2
    /\ obj.passes = 2
    /\ PairsStillCollide

\* A stop after the first pass, in which nothing collided, with a pass left.
SolverEarlyStop ==
    /\ pc = "returned"
    /\ stepArgs.iters = 2
    /\ obj.passes = 1
    /\ obj.solved

-----------------------------------------------------------------------------
(* Claims about the resting flag over one step of the driver.              *)

\* The swept shape of entity in w: from its position along its velocity, or
\* in place when it has no rigid_body.
SweptOf(w, entity) ==
    LET pos == w.transform[entity].val.pos
    IN  generate_swept_shape(
            pos,
            IF w.rigid_body[entity].some
            THEN add(pos, w.rigid_body[entity].val.vel) ELSE pos,
            w.shape[entity].val).swept

\* In w, entity is in contact with another entity along a normal that is
\* nearly vertical.
NearVerticalContact(w, entity) ==
    \E other \in Entities \ {entity} :
        /\ IsObject(w, entity)
        /\ IsObject(w, other)
        /\ LET normal == check_collision(SweptOf(w, entity), SweptOf(w, other))
           IN  normal.some /\ RLe(RAbs(normal.val.x), RestNormalX)

RestOf(w, entity) == w.rigid_body[entity].some /\ w.rigid_body[entity].val.rest

AfterSolver == pc = "update_pos"

-----------------------------------------------------------------------------
(* Claims about the resting flag in compute_reaction.                      *)

\* The magnitude of normal.x is below the threshold 0.2.
NearlyVertical(normal) == RLt(RAbs(normal.x), Frac(1, 5))

\* The entities whose resting flag the call turned from false to true.
NewlyResting ==
    {e \in Entities : RestOf(world, e) /\ ~RestOf(reactArgs.before, e)}

\* The entity the normal designates: entity_1 when normal.y > 0, entity_2
\* when normal.y < 0, none when normal.y = 0.
Designated(normal) ==
    IF RGt(normal.y, Zero) THEN {reactArgs.entity_1}
    ELSE IF RLt(normal.y, Zero) THEN {reactArgs.entity_2}
    ELSE {}

\* C16: compute_reaction sets the resting flag of an entity only when the
\* normal is nearly vertical; then it sets the flag of entity_1 when
\* normal.y > 0 and of entity_2 when normal.y < 0, if that entity has a
\* rigid_body, and skips an entity that has none; with any other normal no
\* resting flag changes; no component is created for a static entity.
C16_RestingDetection ==
    Reacted =>
        /\ NewlyResting # {} => NearlyVertical(reactArgs.normal)
        /\ NearlyVertical(reactArgs.normal) =>
                \A e \in Designated(reactArgs.normal) :
                    reactArgs.before.rigid_body[e].some => RestOf(world, e)
        /\ NewlyResting \subseteq Designated(reactArgs.normal)
        /\ \A e \in Entities :
                /\ world.rigid_body[e].some = reactArgs.before.rigid_body[e].some
                /\ RestOf(reactArgs.before, e) => RestOf(world, e)

\* A normal tilted by less than the threshold and pointing up, entity_2
\* static: the call goes through and no flag is set.
C16_Witness ==
    /\ Reacted
    /\ reactArgs.normal = Vec2(Frac(-11, 61), Frac(-60, 61))
    /\ ~reactArgs.before.rigid_body[1].some
    /\ NewlyResting = {}

\* The same normal with entity_2 dynamic: entity_2 alone is flagged.
RestingFlagSet ==
    /\ Reacted
    /\ reactArgs.normal = Vec2(Frac(-11, 61), Frac(-60, 61))
    /\ NewlyResting = {1}

-----------------------------------------------------------------------------
(* SparseSet (ecs.rs): the dense vectors components and entities and the   *)
(* vector sparse of optional indices into them.  Indices are the program's *)
(* (from 0); position i of a vector is element i + 1 of its sequence.      *)
(* A call returns the set it leaves, its result, and whether it panicked.  *)

MaxEntity == 2

SetEntities == 0..MaxEntity
Components == {"a", "b"}

MissingComponent(entity) == [kind |-> "MissingComponent", entity |-> entity]
AlreadyExistingComponent(entity) ==
    [kind |-> "AlreadyExistingComponent", entity |-> entity]

SparseSetNew == [components |-> <<>>, entities |-> <<>>, sparse |-> <<>>]

Returned(sset, ret) == [set |-> sset, ret |-> ret, panic |-> FALSE]
Panicked(sset) == [set |-> sset, ret |-> None, panic |-> TRUE]

\* Vec::resize(new_len, None) of a vector shorter than new_len.
Resize(sparse, new_len) ==
    sparse \o [i \in 1..(new_len - Len(sparse)) |-> None]

\* Vec::swap(i, j), on indices inside the vector.
Swap(vec, i, j) ==
    [vec EXCEPT ![i + 1] = vec[j + 1], ![j + 1] = vec[i + 1]]

insert(sset, entity, component) ==
    LET index == Len(sset.components)
        sparse == IF entity >= Len(sset.sparse)
                  THEN Resize(sset.sparse, entity + 1) ELSE sset.sparse
    IN  IF sparse[entity + 1].some
        THEN Returned([sset EXCEPT !.sparse = sparse],
                      Err(AlreadyExistingComponent(entity)))
        ELSE Returned([components |-> Append(sset.components, component),
                       entities |-> Append(sset.entities, entity),
                       sparse |-> [sparse EXCEPT ![entity + 1] = Some(index)]],
                      Ok(<<>>))

\* The entry of entity is taken out of sparse first and the entry of the
\* entity found at index after the swap is written afterwards.  The
\* subtraction len() - 1 and the swap panic when out of range.
remove(sset, entity) ==
    IF entity >= Len(sset.sparse) THEN Returned(sset, None)
    ELSE IF ~sset.sparse[entity + 1].some THEN Returned(sset, None)
    ELSE LET index == sset.sparse[entity + 1].val
             taken == [sset EXCEPT !.sparse[entity + 1] = None]
             last_index == Len(sset.components) - 1
         IN  IF last_index < 0 \/ index > last_index THEN Panicked(taken)
             ELSE LET components == Swap(sset.components, index, last_index)
                      entities == Swap(sset.entities, index, last_index)
                      moved_entity == entities[index + 1]
                  IN  Returned(
                          [components |-> DropLast(components),
                           entities |-> DropLast(entities),
                           sparse |-> [taken.sparse EXCEPT
                                          ![moved_entity + 1] = Some(index)]],
                          Some(components[last_index + 1]))

set(sset, entity, component) ==
    IF entity >= Len(sset.sparse)
    THEN Returned(sset, Err(MissingComponent(entity)))
    ELSE IF ~sset.sparse[entity + 1].some
    THEN Returned(sset, Err(MissingComponent(entity)))
    ELSE LET index == sset.sparse[entity + 1].val
         IN  IF index >= Len(sset.components) THEN Panicked(sset)
             ELSE Returned([sset EXCEPT !.components[index + 1] = component],
                           Ok(<<>>))

get(sset, entity) ==
    IF entity >= Len(sset.sparse) THEN Returned(sset, None)
    ELSE IF ~sset.sparse[entity + 1].some THEN Returned(sset, None)
    ELSE LET index == sset.sparse[entity + 1].val
         IN  IF index >= Len(sset.components) THEN Panicked(sset)
             ELSE Returned(sset, Some(sset.components[index + 1]))

SparseInit ==
    /\ obj = SparseSetNew
    /\ callArgs = <<>>
    /\ callRet = Pending
    /\ SatIdle
    /\ HullIdle
    /\ WorldIdle

\* The program goes on calling until a call panics.
Running == ~(callRet.done /\ callRet.panic)

\* One call: r is what it returned.
Call(op, entity, component, r) ==
    /\ callArgs' = [op |-> op, entity |-> entity, component |-> component,
                    before |-> obj]
    /\ callRet' = [done |-> TRUE, ret |-> r.ret, panic |-> r.panic]
    /\ obj' = r.set
    /\ UNCHANGED <<satArgs, satRet, hullArgs, hullRet, world, reactArgs,
                   stepArgs, pc>>

CallInsert ==
    /\ Running
    /\ \E entity \in SetEntities, component \in Components :
        Call("insert", entity, component, insert(obj, entity, component))

CallRemove ==
    /\ Running
    /\ \E entity \in SetEntities :
        Call("remove", entity, "a", remove(obj, entity))

CallSet ==
    /\ Running
    /\ \E entity \in SetEntities, component \in Components :
        Call("set", entity, component, set(obj, entity, component))

CallGet ==
    /\ Running
    /\ \E entity \in SetEntities :
        Call("get", entity, "a", get(obj, entity))

SparseNext ==
    \/ CallInsert
    \/ CallRemove
    \/ CallSet
    \/ CallGet

SpecSparse == SparseInit /\ [][SparseNext]_vars

-----------------------------------------------------------------------------
(* Claims about the component store.                                       *)

\* The entities stored with their components, as iter() yields them.
Stored(sset) ==
    {<<sset.entities[i], sset.components[i]>> : i \in 1..Len(sset.entities)}

Has(sset, entity) == \E i \in 1..Len(sset.entities) : sset.entities[i] = entity

\* The call was a failed one of the two kinds: an insert for an entity that
\* had the component, or a set for an entity that had none.
InsertOfExisting ==
    callRet.done /\ callArgs.op = "insert" /\ Has(callArgs.before, callArgs.entity)

SetOfMissing ==
    callRet.done /\ callArgs.op = "set" /\ ~Has(callArgs.before, callArgs.entity)

\* C17: insert for an entity that already has the component returns
\* Err(AlreadyExistingComponent), set for an entity that has no component
\* returns Err(MissingComponent); neither call panics, and after either the
\* entities stored and their components are what they were before the call.
C17_StoreErrors ==
    /\ InsertOfExisting =>
        /\ ~callRet.panic
        /\ callRet.ret = Err(AlreadyExistingComponent(callArgs.entity))
        /\ Stored(obj) = Stored(callArgs.before)
    /\ SetOfMissing =>
        /\ ~callRet.panic
        /\ callRet.ret = Err(MissingComponent(callArgs.entity))
        /\ Stored(obj) = Stored(callArgs.before)

\* Every entry of sparse that is set names the place of its entity.
SparseConsistent(sset) ==
    \A e \in SetEntities :
        (e < Len(sset.sparse) /\ sset.sparse[e + 1].some) =>
            /\ sset.sparse[e + 1].val < Len(sset.entities)
            /\ sset.entities[sset.sparse[e + 1].val + 1] = e

\* The same two outcomes, for calls on a set whose sparse entries are right.
StoreErrorsWhenConsistent ==
    (callRet.done /\ SparseConsistent(callArgs.before)) => C17_StoreErrors

\* set for an entity whose only component was removed panics.
SetAfterRemovePanics ==
    /\ SetOfMissing
    /\ callArgs.before = [components |-> <<>>, entities |-> <<>>,
                          sparse |-> <<Some(0)>>]
    /\ callRet.panic

-----------------------------------------------------------------------------
(* Claims about entities enrolled without all their components.            *)

Incomplete(w, entity) == ~w.surface[entity].some \/ ~w.shape[entity].some

\* An entity with a rigid_body lacks its surface or its shape.
DynamicIncomplete(w) ==
    \E e \in Entities : w.rigid_body[e].some /\ Incomplete(w, e)

\* The only entity lacking its surface or shape has no rigid_body either.
StaticIncomplete(w) ==
    /\ ~DynamicIncomplete(w)
    /\ \E e \in Entities : ~w.rigid_body[e].some /\ Incomplete(w, e)

\* C18: a call of resolve_collisions that makes at least one pass over a
\* world in which an entity with a rigid_body lacks its surface or its shape
\* aborts; over a world in which the entity lacking them has no rigid_body
\* it returns without error, that entity being skipped.
C18_MissingComponentsAbort ==
    (SolverEnded /\ stepArgs.iters >= 1) =>
        /\ DynamicIncomplete(callArgs.before) => pc = "panicked"
        /\ StaticIncomplete(callArgs.before) => pc = "returned"

\* The static half of C18 alone.
StaticIncompleteSkipped ==
    (SolverEnded /\ StaticIncomplete(callArgs.before)) => pc = "returned"

\* The box, falling onto the floor, has a rigid_body and no surface: the
\* call returns and has changed nothing.
DynamicIncompleteSkipped ==
    /\ pc = "returned"
    /\ stepArgs.iters >= 1
    /\ ~callArgs.before.surface[0].some
    /\ callArgs.before.rigid_body[0].val.vel = V(0, 1)
    /\ callArgs.before.transform[1].val.pos = V(-4, 2)
    /\ world = callArgs.before

-----------------------------------------------------------------------------
(* Claims about what resolve_collisions changes.                           *)

\* Everything of a rigid_body but its velocity and its resting flag.
Inertia(body) == [force |-> body.force, mass |-> body.mass,
                  inv_mass |-> body.inv_mass]

\* C19: resolve_collisions changes no transform, shape or surface, creates
\* and removes no component, changes the force and the mass of no rigid_body
\* and leaves an entity without a rigid_body as it was: only the velocity and
\* the resting flag of entities that have a rigid_body can change.
C19_SolverTouchesMotionOnly ==
    LET before == callArgs.before
    IN  /\ world.ents = before.ents
        /\ world.transform = before.transform
        /\ world.surface = before.surface
        /\ world.shape = before.shape
        /\ \A e \in Entities :
            /\ world.rigid_body[e].some = before.rigid_body[e].some
            /\ world.rigid_body[e].some =>
                 Inertia(world.rigid_body[e].val) = Inertia(before.rigid_body[e].val)

\* The box has hit the static floor: its velocity has been brought to 0 and
\* its resting flag set, and the floor is as it was.
C19_Witness ==
    /\ pc = "returned"
    /\ ~callArgs.before.rigid_body[1].some
    /\ ~world.rigid_body[1].some
    /\ callArgs.before.rigid_body[0].val.vel = V(0, 1)
    /\ world.rigid_body[0].val.vel = V(0, 0)
    /\ world.rigid_body[0].val.rest

-----------------------------------------------------------------------------
(* A RigidBody (components.rs) under its public operations: obj is None    *)
(* before new has returned a body and Some(body) afterwards.  1.0 / 0.0 is *)
(* the infinite value 1/0.                                                 *)

MaxBodyMass == 2

BodyMasses == {R(m) : m \in (-1)..MaxBodyMass}
BodyVecs == {V(0, 0), V(1, 0), V(0, 1)}

Finite(x) == x.d # 0

\* RigidBody::new, which panics on a mass that is not positive.
RigidBodyNew(vel, force, mass, rest) ==
    IF RLe(mass, Zero) THEN Panicked(None)
    ELSE Returned(Some(RigidBody(vel, force, mass, rest)), Ok(<<>>))

reset_vel(body, new_vel) == [body EXCEPT !.vel = new_vel]

\* RigidBody::reset_force (the method, not the function of physics.rs).
body_reset_force(body, new_force) == [body EXCEPT !.force = new_force]

set_mass(body, mass) == [body EXCEPT !.mass = mass, !.inv_mass = RInv(mass)]

BodyInit ==
    /\ obj = None
    /\ callArgs = <<>>
    /\ callRet = Pending
    /\ SatIdle
    /\ HullIdle
    /\ WorldIdle

\* One call of a method: op with its argument, leaving new_obj.
BodyCall(op, arg, new_obj, panic) ==
    /\ callArgs' = [op |-> op, arg |-> arg]
    /\ callRet' = [done |-> TRUE, panic |-> panic]
    /\ obj' = new_obj
    /\ UNCHANGED <<satArgs, satRet, hullArgs, hullRet, world, reactArgs,
                   stepArgs, pc>>

CallRigidBodyNew ==
    /\ Running
    /\ ~obj.some
    /\ \E vel \in BodyVecs, mass \in BodyMasses :
        \E r \in {RigidBodyNew(vel, V(0, 0), mass, FALSE)} :
            BodyCall("new", mass, r.set, r.panic)

CallResetVel ==
    /\ Running
    /\ obj.some
    /\ \E new_vel \in BodyVecs :
        BodyCall("reset_vel", new_vel, Some(reset_vel(obj.val, new_vel)), FALSE)

CallBodyResetForce ==
    /\ Running
    /\ obj.some
    /\ \E new_force \in BodyVecs :
        BodyCall("reset_force", new_force,
                 Some(body_reset_force(obj.val, new_force)), FALSE)

CallSetMass ==
    /\ Running
    /\ obj.some
    /\ \E mass \in BodyMasses :
        BodyCall("set_mass", mass, Some(set_mass(obj.val, mass)), FALSE)

BodyNext ==
    \/ CallRigidBodyNew
    \/ CallResetVel
    \/ CallBodyResetForce
    \/ CallSetMass

SpecBody == BodyInit /\ [][BodyNext]_vars

-----------------------------------------------------------------------------
(* Claims about the RigidBody.                                             *)

\* C20: in every state reached through new, reset_vel, reset_force and
\* set_mass, the mass of the body is > 0 and its inv_mass is finite and
\* equal to 1 / mass.
C20_MassInvariant ==
    obj.some =>
        /\ RGt(obj.val.mass, Zero)
        /\ Finite(obj.val.inv_mass)
        /\ RMul(obj.val.inv_mass, obj.val.mass) = One

\* new does hold the invariant.
MassInvariantAfterNew ==
    (callRet.done /\ callArgs.op = "new") => C20_MassInvariant

\* A body built with mass 1 and given the mass 0 by set_mass.
BodyOfMassZero ==
    /\ obj.some
    /\ callArgs.op = "set_mass"
    /\ obj.val.mass = Zero
    /\ ~Finite(obj.val.inv_mass)

-----------------------------------------------------------------------------
(* Claims about the axis list of check_sat.                                *)

\* Two axes of the list that check_sat projects onto are near-parallel.
NearParallelAxes(axes) ==
    \E i, j \in 1..Len(axes) :
        /\ i < j
        /\ RGe(RAbs(dot(axes[i], axes[j])), RSub(One, EPS))

AxisAlignedRects ==
    /\ satArgs[1].tag = "Unmoved" /\ satArgs[1].shape.kind = "Rect"
    /\ satArgs[2].tag = "Unmoved" /\ satArgs[2].shape.kind = "Rect"

\* C25: the axis list that check_sat projects onto, the deduplicated edge
\* normals of both shapes, holds no two axes whose dot product has magnitude
\* >= 1 - EPS; two axis-aligned rectangles yield exactly the 2 world axes.
C25_AxesDeduplicated ==
    SatDone =>
        /\ ~NearParallelAxes(SatAxes(satArgs[1], satArgs[2]))
        /\ AxisAlignedRects => Len(SatAxes(satArgs[1], satArgs[2])) = 2

\* Two axis-aligned rectangles are projected onto four axes.
RectsYieldFourAxes ==
    /\ SatDone
    /\ AxisAlignedRects
    /\ SatAxes(satArgs[1], satArgs[2]) = <<V(1, 0), V(0, 1), V(1, 0), V(0, 1)>>

-----------------------------------------------------------------------------
(* The component store as a finite map, and its sparse/dense invariant.    *)

\* What get returns for each entity of a set.
View(sset) == [e \in SetEntities |-> get(sset, e)]

Absent == Returned(<<>>, None)
Present(component) == Returned(<<>>, Some(component))

\* What get returns for entity, the set it leaves aside.
Lookup(sset, entity) == [View(sset)[entity] EXCEPT !.set = <<>>]

\* No entity but callArgs.entity is looked up differently after the call.
OthersUntouched ==
    \A e \in SetEntities \ {callArgs.entity} :
        Lookup(obj, e) = Lookup(callArgs.before, e)

\* C26: the store is a finite map under any sequence of insert, set, remove
\* and get.  get(e) returns the value of the latest successful insert or set
\* for e since its last removal and none otherwise; remove(e) returns that
\* value; after remove(e) an insert for e succeeds; no call on e changes what
\* get returns for another entity.  Stated call by call on what get returns
\* before and after: a new store holds nothing (Lookup is Absent), and every
\* call acts on the lookups as the same call acts on a map.
C26_FiniteMap ==
    /\ ~callRet.done => \A e \in SetEntities : Lookup(obj, e) = Absent
    /\ callRet.done =>
        LET e == callArgs.entity
            c == callArgs.component
            was == Lookup(callArgs.before, e)
            is == Lookup(obj, e)
        IN  /\ ~callRet.panic
            /\ OthersUntouched
            /\ callArgs.op = "get" => (callRet.ret = was.ret /\ is = was)
            /\ callArgs.op = "insert" =>
                IF was = Absent
                THEN callRet.ret = Ok(<<>>) /\ is = Present(c)
                ELSE callRet.ret = Err(AlreadyExistingComponent(e)) /\ is = was
            /\ callArgs.op = "set" =>
                IF was = Absent
                THEN callRet.ret = Err(MissingComponent(e)) /\ is = was
                ELSE callRet.ret = Ok(<<>>) /\ is = Present(c)
            /\ callArgs.op = "remove" => (callRet.ret = was.ret /\ is = Absent)

\* get for the entity just removed, the only one stored, does not return none.
GetAfterRemovePanics ==
    /\ callRet.done
    /\ callArgs.op = "remove"
    /\ callArgs.before.entities = <<callArgs.entity>>
    /\ callRet.ret = Some("a")
    /\ get(obj, callArgs.entity).panic

\* An insert for the entity that was removed last is refused.
InsertAfterRemoveRefused ==
    /\ callRet.done
    /\ callArgs.op = "insert"
    /\ ~Has(callArgs.before, callArgs.entity)
    /\ callRet.ret = Err(AlreadyExistingComponent(callArgs.entity))

\* The length of a vector: positions 0..len-1 are elements 1..len.
DenseIndices(sset) == 0..(Len(sset.entities) - 1)

\* C30: in every state reachable by insert, set and remove, the dense vectors
\* components and entities have equal length; for every dense index i the
\* entry of sparse for entities[i] is i; and every entry of sparse that holds
\* an index i has i < length and entities[i] equal to the entity of the entry.
C30_SparseDenseConsistent ==
    /\ Len(obj.components) = Len(obj.entities)
    /\ \A i \in DenseIndices(obj) :
        /\ obj.entities[i + 1] < Len(obj.sparse)
        /\ obj.sparse[obj.entities[i + 1] + 1] = Some(i)
    /\ \A e \in 0..(Len(obj.sparse) - 1) :
        obj.sparse[e + 1].some =>
            /\ obj.sparse[e + 1].val \in DenseIndices(obj)
            /\ obj.entities[obj.sparse[e + 1].val + 1] = e

\* An entry of sparse that points past the end of the dense vectors.
DanglingIndex ==
    /\ callRet.done
    /\ callArgs.op = "remove"
    /\ ~callRet.panic
    /\ \E e \in 0..(Len(obj.sparse) - 1) :
        obj.sparse[e + 1].some /\ obj.sparse[e + 1].val >= Len(obj.entities)

\* Two entries of sparse that hold the same index.
SharedIndex ==
    \E e1, e2 \in 0..(Len(obj.sparse) - 1) :
        /\ e1 # e2
        /\ obj.sparse[e1 + 1].some
        /\ obj.sparse[e1 + 1] = obj.sparse[e2 + 1]

\* The entity removed was not the last of the dense vectors.
RemovedInside ==
    /\ callRet.done
    /\ callArgs.op = "remove"
    /\ Has(callArgs.before, callArgs.entity)
    /\ callArgs.before.entities[Len(callArgs.before.entities)] # callArgs.entity

\* A remove of an entity that is not the last one stored, from a set that
\* satisfies the invariant, leaves a set that satisfies it.
ConsistentAfterInnerRemove ==
    (RemovedInside /\ SparseConsistent(callArgs.before)
        /\ \A i \in DenseIndices(callArgs.before) :
              callArgs.before.sparse[callArgs.before.entities[i + 1] + 1] = Some(i))
    => C30_SparseDenseConsistent

-----------------------------------------------------------------------------
(* Claims about the impulses of compute_reaction.  Before the call: the    *)
(* stores in reactArgs.before; after it: world.                            *)

Dynamic(entity) == reactArgs.before.rigid_body[entity].some

VelBefore(entity) == VelOf(reactArgs.before, entity)

InvMassBefore(entity) ==
    IF Dynamic(entity) THEN reactArgs.before.rigid_body[entity].val.inv_mass
    ELSE Zero

MassBefore(entity) == reactArgs.before.rigid_body[entity].val.mass

InvMassSum ==
    RAdd(InvMassBefore(reactArgs.entity_1), InvMassBefore(reactArgs.entity_2))

\* e = min(e1, e2)
CombinedElast ==
    RMin(reactArgs.before.surface[reactArgs.entity_1].val.elast,
         reactArgs.before.surface[reactArgs.entity_2].val.elast)

\* The call went past its early return: a normal impulse was applied.
ImpulseApplied == Reacted /\ RLt(ClosingSpeed, EPS)

\* -(1 + e) * vn / (inv_mass_1 + inv_mass_2)
RestitutionImpulse ==
    RNeg(RDiv(RMul(RAdd(One, CombinedElast), ClosingSpeed), InvMassSum))

\* The velocity of entity with the impulse of the restitution law applied:
\* subtracted for entity_1, added for entity_2, scaled by the reciprocal mass.
VelAfterImpulse(entity) ==
    LET delta_vel ==
            scale(scale(reactArgs.normal, RestitutionImpulse),
                  InvMassBefore(entity))
    IN  IF entity = reactArgs.entity_1 THEN sub(VelBefore(entity), delta_vel)
        ELSE add(VelBefore(entity), delta_vel)

\* The rounding of vel.y to 0 changes the velocity entity has after the impulse.
YRounded(entity) ==
    Dynamic(entity) /\ RoundY(VelAfterImpulse(entity)) # VelAfterImpulse(entity)

NormalSpeedAfter ==
    dot(sub(VelOf(world, reactArgs.entity_2), VelOf(world, reactArgs.entity_1)),
        reactArgs.normal)

\* C22: when compute_reaction applies a normal impulse, its magnitude is
\* -(1 + e) * vn / (inv_mass_1 + inv_mass_2) with e = min(e1, e2), vn the
\* relative normal velocity before it and inv_mass_2 = 0 for a static
\* entity_2; it is applied with opposite signs scaled by each reciprocal
\* mass, and the relative normal velocity it leaves is -e * vn.  Read on the
\* velocities the call leaves, where no vel.y was rounded: the friction
\* impulse that follows is tangential and keeps every normal component.
C22_RestitutionLaw ==
    (ImpulseApplied /\ \A e \in Entities : ~YRounded(e)) =>
        /\ \A e \in Entities :
            Dynamic(e) =>
                dot(VelOf(world, e), reactArgs.normal)
                    = dot(VelAfterImpulse(e), reactArgs.normal)
        /\ NormalSpeedAfter = RNeg(RMul(CombinedElast, ClosingSpeed))

\* Masses 1 and 2 closing at speed 2 with restitution 1/2 part at speed 1.
C22_Witness ==
    /\ ImpulseApplied
    /\ \A e \in Entities : Dynamic(e) /\ ~YRounded(e)
    /\ MassBefore(0) # MassBefore(1)
    /\ CombinedElast = Frac(1, 2)
    /\ ClosingSpeed = R(-2)
    /\ RestitutionImpulse = R(2)
    /\ NormalSpeedAfter = One

\* An impulse along a tilted normal, followed by a friction impulse.
RestitutionWithFriction ==
    /\ ImpulseApplied
    /\ \A e \in Entities : ~YRounded(e)
    /\ reactArgs.normal = Vec2(Frac(3, 5), Frac(4, 5))
    /\ RLt(ClosingSpeed, Zero)
    /\ \E e \in Entities : Dynamic(e) /\ VelOf(world, e) # VelAfterImpulse(e)

RestOfAfter(entity) == world.rigid_body[entity].val.rest

\* Some surface of the pair has no friction: the combined coefficients are 0
\* and no friction impulse changes a velocity.
NoFriction ==
    \E e \in Entities : Frictionless(reactArgs.before.surface[e].val)

\* C23: after the normal impulse a velocity component is snapped to zero only
\* for an entity whose resting flag is set; for an entity whose resting flag
\* is not set the velocity after the normal impulse is exactly its previous
\* velocity minus (entity_1) or plus (entity_2) impulse * reciprocal mass *
\* normal.  Read on the velocities the call leaves in contacts without
\* friction, where nothing follows the normal impulse and the snapping.
C23_SnapOnlyWhenResting ==
    (ImpulseApplied /\ NoFriction) =>
        \A e \in Entities :
            (Dynamic(e) /\ ~RestOfAfter(e)) => VelOf(world, e) = VelAfterImpulse(e)

\* The vel.y of an entity that is not resting is rounded from 1/2 to 0.
SnappedWhileNotResting ==
    /\ ImpulseApplied
    /\ NoFriction
    /\ reactArgs.normal = V(1, 0)
    /\ ~Dynamic(1)
    /\ ~RestOfAfter(0)
    /\ VelBefore(0) = Vec2(One, Frac(1, 2))
    /\ VelAfterImpulse(0) = Vec2(R(-1), Frac(1, 2))
    /\ VelOf(world, 0) = V(-1, 0)

\* Where the rounding changes nothing, the velocities are those of the law.
ExactWhenNotRounded ==
    (ImpulseApplied /\ NoFriction /\ \A e \in Entities : ~YRounded(e)) =>
        \A e \in Entities : Dynamic(e) => VelOf(world, e) = VelAfterImpulse(e)

\* A resting entity keeps a vel.y above the threshold of the rounding.
RestingNotSnapped ==
    /\ ImpulseApplied
    /\ RestOfAfter(0)
    /\ RGt(RAbs(VelOf(world, 0).y), RoundVelY)

-----------------------------------------------------------------------------
(* Claims about the friction step of compute_reaction.                     *)

\* The velocity of entity when the friction step begins: after the normal
\* impulse and the rounding of vel.y.
VelBeforeFriction(entity) ==
    IF Dynamic(entity) THEN RoundY(VelAfterImpulse(entity)) ELSE V(0, 0)

\* The tangential part of the velocity of entity_2 relative to entity_1.
Tangential(vel_1, vel_2) ==
    LET rel_vel == sub(vel_2, vel_1)
    IN  sub(rel_vel, scale(reactArgs.normal, dot(rel_vel, reactArgs.normal)))

Slip ==
    Tangential(VelBeforeFriction(reactArgs.entity_1),
               VelBeforeFriction(reactArgs.entity_2))

SlipAfter ==
    Tangential(VelOf(world, reactArgs.entity_1), VelOf(world, reactArgs.entity_2))

\* The combined coefficients: sqrt(mu_1 * mu_2).
CombinedStatic ==
    RSqrt(RMul(reactArgs.before.surface[reactArgs.entity_1].val.static_friction,
               reactArgs.before.surface[reactArgs.entity_2].val.static_friction))

CombinedKinetic ==
    RSqrt(RMul(reactArgs.before.surface[reactArgs.entity_1].val.kinetic_friction,
               reactArgs.before.surface[reactArgs.entity_2].val.kinetic_friction))

\* The impulse that cancels a slip of magnitude speed is within the bound of
\* static friction for a normal impulse.
StaticBoundHolds(speed, impulse) ==
    RLe(RDiv(speed, InvMassSum), RMul(CombinedStatic, RAbs(impulse)))

WithinStaticBound == StaticBoundHolds(mag(Slip), RestitutionImpulse)

\* vel with a tangential impulse of magnitude j applied against slip: along
\* the slip for entity_1, against it for entity_2, scaled by the reciprocal
\* mass.
VelWithFriction(entity, vel, slip, j) ==
    LET delta_vel ==
            scale(scale(slip, RDiv(One, mag(slip))),
                  RMul(j, InvMassBefore(entity)))
    IN  IF entity = reactArgs.entity_1 THEN add(vel, delta_vel)
        ELSE sub(vel, delta_vel)

\* Every dynamic entity leaves the call with the velocity it had when the
\* friction step began and a friction impulse of magnitude j.
FrictionApplied(slip, j) ==
    \A e \in Entities :
        Dynamic(e) =>
            \E vel \in {VelBeforeFriction(e)} :
                VelOf(world, e) = VelWithFriction(e, vel, slip, j)

\* C24: after the normal impulse, if the tangential relative speed is below
\* EPS no friction impulse is applied; otherwise, if the impulse that would
\* cancel the slip has magnitude at most static_friction * |normal impulse|
\* (combined static friction), it is applied and the tangential relative
\* velocity after the call is zero; otherwise an impulse of magnitude
\* kinetic_friction * |normal impulse| (combined kinetic friction) is applied
\* against the slip, with opposite signs on the two entities scaled by their
\* reciprocal masses.
C24_CoulombFriction ==
    ImpulseApplied =>
        \A slip \in {Slip}, impulse \in {RestitutionImpulse} :
            \A speed \in {mag(slip)} :
                IF RLt(speed, EPS)
                THEN \A e \in Entities : VelOf(world, e) = VelBeforeFriction(e)
                ELSE IF StaticBoundHolds(speed, impulse)
                THEN /\ SlipAfter = V(0, 0)
                     /\ FrictionApplied(slip, RDiv(speed, InvMassSum))
                ELSE FrictionApplied(
                         slip, RMul(CombinedKinetic, RAbs(impulse)))

\* Static friction stops a slip between two dynamic entities.
C24_Witness ==
    /\ ImpulseApplied
    /\ \A e \in Entities : Dynamic(e)
    /\ MassBefore(0) # MassBefore(1)
    /\ RGe(mag(Slip), Frac(1, 2))
    /\ WithinStaticBound
    /\ SlipAfter = V(0, 0)
    /\ \A e \in Entities : VelOf(world, e) # VelBeforeFriction(e)

\* Kinetic friction slows a slip without stopping it.
KineticFrictionSlows ==
    /\ ImpulseApplied
    /\ RGe(mag(Slip), Frac(1, 2))
    /\ ~WithinStaticBound
    /\ RGt(CombinedKinetic, Zero)
    /\ SlipAfter \notin {V(0, 0), Slip}

\* A slip below EPS that is left as it is.
NegligibleSlipKept ==
    /\ ImpulseApplied
    /\ Slip # V(0, 0)
    /\ RLt(mag(Slip), EPS)
    /\ SlipAfter = Slip

-----------------------------------------------------------------------------
(* Momentum and slip over one call of compute_reaction.                    *)

\* mass_1 * vel_1 + mass_2 * vel_2 in the stores w, both entities dynamic.
Momentum(w) ==
    add(scale(w.rigid_body[0].val.vel, w.rigid_body[0].val.mass),
        scale(w.rigid_body[1].val.vel, w.rigid_body[1].val.mass))

BothDynamic == \A e \in Entities : Dynamic(e)

\* C27: for two entities that both have a motion state, one call of
\* compute_reaction (normal impulse, snapping and friction impulse included)
\* leaves the total linear momentum mass_1 * vel_1 + mass_2 * vel_2 unchanged
\* in both components.
C27_MomentumConserved ==
    (Reacted /\ BothDynamic) => Momentum(world) = Momentum(reactArgs.before)

\* The rounding of one vel.y from 1/2 to 0 takes momentum away.
MomentumLostToRounding ==
    /\ Reacted
    /\ BothDynamic
    /\ reactArgs.normal = V(1, 0)
    /\ VelBefore(0) = Vec2(One, Frac(1, 2))
    /\ VelBefore(1) = V(-1, 0)
    /\ VelOf(world, 0).y = Zero
    /\ Momentum(world).y = Zero
    /\ RGt(Momentum(reactArgs.before).y, Zero)

\* Without a rounding of vel.y the call keeps the momentum.
MomentumConservedWhenNotRounded ==
    (ImpulseApplied /\ BothDynamic /\ \A e \in Entities : ~YRounded(e))
        => Momentum(world) = Momentum(reactArgs.before)

\* b is a times some k with 0 <= k <= 1.
Shrunk(a, b) ==
    /\ b.n = 0 \/ (b.n > 0 /\ a.n > 0) \/ (b.n < 0 /\ a.n < 0)
    /\ RLe(RAbs(b), RAbs(a))

\* The slip after the call has the direction it had when the friction step
\* began, and is not larger.  Both are vectors along the tangent of the
\* contact, so this is decided on each coordinate.
SlipNotAdded(slip, slip_after) ==
    /\ Shrunk(slip.x, slip_after.x)
    /\ Shrunk(slip.y, slip_after.y)

\* C28: for any pair of surfaces (any non-negative static and kinetic friction
\* coefficients, in any order) and any closing contact, the friction step of
\* compute_reaction never increases the magnitude of the tangential relative
\* velocity and never reverses its direction.
C28_FrictionNeverAddsSlip ==
    (ImpulseApplied /\ RLt(ClosingSpeed, Zero)) =>
        \A slip \in {Slip}, slip_after \in {SlipAfter} :
            SlipNotAdded(slip, slip_after)

\* Kinetic friction 1 over static friction 0 turns a slip of (0, -1) into
\* one of (0, 3).
SlipReversedAndLarger ==
    /\ ImpulseApplied
    /\ RLt(ClosingSpeed, Zero)
    /\ RGt(CombinedKinetic, CombinedStatic)
    /\ Slip = V(0, -1)
    /\ SlipAfter = V(0, 3)

\* With kinetic friction no larger than static friction, no slip is added.
NoSlipAddedWhenKineticBelowStatic ==
    (ImpulseApplied /\ RLe(CombinedKinetic, CombinedStatic)) =>
        \A slip \in {Slip}, slip_after \in {SlipAfter} :
            SlipNotAdded(slip, slip_after)

-----------------------------------------------------------------------------
(* Fixed points of the solver loop.                                        *)

\* No pair was detected as colliding in the call: its first pass was solved.
NoPairDetected == obj.passes = 1 /\ obj.solved

\* The call made no pass, or detected no colliding pair.
NothingToSolve ==
    pc = "returned" /\ (stepArgs.iters = 0 \/ NoPairDetected)

NothingDetected ==
    /\ NothingToSolve
    /\ stepArgs.iters = 2
    /\ IsDynamicObject(world, 0)
    /\ IsObject(world, 1)
    /\ world.rigid_body[0].val.vel # V(0, 0)

-----------------------------------------------------------------------------
(* resolve_collisions, one pair test at a time, on a stack of three        *)
(* entities: box 2 lying on box 0 above the floor 1, the boxes still or    *)
(* falling, one component of one entity possibly missing.  The locals of   *)
(* resolve_collisions (ents, solved, the passes made) and of               *)
(* resolve_obj_collisions (the indices i of entity_1 and j of entity_2 in  *)
(* ents, pos_1, its own solved as obj_solved) are in obj, with two history *)
(* fields: start, the stores when the pass began, and tests, the pair      *)
(* tests of the pass in the order they were made.                          *)

MaxStackGap == 1

StackEntities == {0, 1, 2}
StackOrders ==
    {<<0, 1, 2>>, <<0, 2, 1>>, <<1, 0, 2>>, <<1, 2, 0>>, <<2, 0, 1>>, <<2, 1, 0>>}
StackVels == {V(0, 0), V(0, 1)}
StackSurface == Surface(One, One, Frac(1, 4))
StackMissing == {"none", "box 0 rigid_body", "box 2 shape", "floor surface"}

StackWorld(ents, gap, vel_0, vel_2, missing) ==
    World(ents,
          [e \in StackEntities |->
              Some(Transform(CASE e = 0 -> V(0, 0)
                               [] e = 1 -> V(-4, 2 + gap)
                               [] e = 2 -> V(0, -2)))],
          [e \in StackEntities |->
              CASE e = 0 -> IF missing = "box 0 rigid_body" THEN None
                            ELSE Body(vel_0, One)
                [] e = 1 -> None
                [] e = 2 -> Body(vel_2, One)],
          [e \in StackEntities |->
              IF e = 1 /\ missing = "floor surface" THEN None
              ELSE Some(StackSurface)],
          [e \in StackEntities |->
              IF e = 2 /\ missing = "box 2 shape" THEN None
              ELSE Some(IF e = 1 THEN Floor ELSE Box)])

PairsInit ==
    /\ \E ents \in StackOrders, gap \in 0..MaxStackGap,
          vel_0 \in StackVels, vel_2 \in StackVels, missing \in StackMissing :
            /\ world = StackWorld(ents, gap, vel_0, vel_2, missing)
            /\ callArgs = [before |-> world]
    /\ \E sort \in BOOLEAN, iters \in {1, MaxIters} :
            stepArgs = [sort |-> sort, iters |-> iters]
    /\ reactArgs = <<>>
    /\ pc = "resolve_collisions"
    /\ callRet = Pending
    /\ obj = <<>>
    /\ SatIdle
    /\ HullIdle

\* A test of entity_1 == entity_2 that never holds.
NeverSelf(entity_1, entity_2) == FALSE

\* if entity_1 == entity_2 { continue; }
IsSelf(entity_1, entity_2) == entity_1 = entity_2

\* let ents = if sort { sort_objs_by_y(world) } else { get_ents() }
PairsEnter ==
    /\ pc = "resolve_collisions"
    /\ obj' = [ents |-> IF stepArgs.sort THEN sort_objs_by_y(world)
                        ELSE world.ents,
               passes |-> 0, solved |-> TRUE, i |-> 0, j |-> 0,
               pos_1 |-> V(0, 0), obj_solved |-> TRUE,
               start |-> world, tests |-> <<>>]
    /\ pc' = "for iters"
    /\ UNCHANGED world
    /\ SolveFrame

\* for _ in 0..iters { let mut solved = true;
PairsBeginPass ==
    /\ pc = "for iters"
    /\ obj.passes < stepArgs.iters
    /\ obj' = [obj EXCEPT !.passes = @ + 1, !.solved = TRUE, !.i = 1,
                          !.start = world, !.tests = <<>>]
    /\ pc' = "for entity"
    /\ UNCHANGED world
    /\ SolveFrame

\* The range 0..iters is used up.
PairsExhausted ==
    /\ pc = "for iters"
    /\ obj.passes >= stepArgs.iters
    /\ pc' = "returned"
    /\ UNCHANGED <<world, obj>>
    /\ SolveFrame

\* resolve_obj_collisions(world, entity, &ents), up to its loop: an entity
\* that is not a dynamic object counts as solved.
PairsEnterObj ==
    /\ pc = "for entity"
    /\ obj.i <= Len(obj.ents)
    /\ IF IsDynamicObject(world, obj.ents[obj.i])
       THEN /\ obj' = [obj EXCEPT
                          !.pos_1 = world.transform[obj.ents[obj.i]].val.pos,
                          !.obj_solved = TRUE, !.j = 1]
            /\ pc' = "for entity_2"
       ELSE /\ obj' = [obj EXCEPT !.i = @ + 1]
            /\ pc' = "for entity"
    /\ UNCHANGED world
    /\ SolveFrame

\* The two `continue` of the loop over entity_2: itself, or not an object.
PairsSkip ==
    /\ pc = "for entity_2"
    /\ obj.j <= Len(obj.ents)
    /\ \/ IsSelf(obj.ents[obj.i], obj.ents[obj.j])
       \/ ~IsObject(world, obj.ents[obj.j])
    /\ obj' = [obj EXCEPT !.j = @ + 1]
    /\ UNCHANGED <<world, pc>>
    /\ SolveFrame

\* One pair test: the swept shapes, check_collision, and on a hit
\* compute_reaction.
PairsTest ==
    /\ pc = "for entity_2"
    /\ obj.j <= Len(obj.ents)
    /\ ~IsSelf(obj.ents[obj.i], obj.ents[obj.j])
    /\ IsObject(world, obj.ents[obj.j])
    /\ \E r \in {ResolvePair(world, obj.ents[obj.i], obj.pos_1, obj.ents[obj.j])} :
        /\ world' = r.world
        /\ obj' = [obj EXCEPT
                      !.j = @ + 1,
                      !.obj_solved = @ /\ r.solved,
                      !.tests = Append(@, [entity_1 |-> obj.ents[obj.i],
                                           entity_2 |-> obj.ents[obj.j],
                                           before |-> world,
                                           hit |-> ~r.panic /\ ~r.solved])]
        /\ pc' = IF r.panic THEN "panicked" ELSE "for entity_2"
    /\ SolveFrame

\* resolve_obj_collisions returns solved: if !... { solved = false; }
PairsLeaveObj ==
    /\ pc = "for entity_2"
    /\ obj.j > Len(obj.ents)
    /\ obj' = [obj EXCEPT !.solved = @ /\ obj.obj_solved, !.i = @ + 1]
    /\ pc' = "for entity"
    /\ UNCHANGED world
    /\ SolveFrame

\* if solved { break; }
PairsEndPass ==
    /\ pc = "for entity"
    /\ obj.i > Len(obj.ents)
    /\ pc' = IF Break(obj.solved) THEN "returned" ELSE "for iters"
    /\ UNCHANGED <<world, obj>>
    /\ SolveFrame

PairsNext ==
    \/ PairsEnter
    \/ PairsBeginPass
    \/ PairsExhausted
    \/ PairsEnterObj
    \/ PairsSkip
    \/ PairsTest
    \/ PairsLeaveObj
    \/ PairsEndPass

SpecPairs == PairsInit /\ [][PairsNext]_vars

-----------------------------------------------------------------------------
(* Claims about the pair tests of one pass.                                *)

\* Every entity of the pass has been through resolve_obj_collisions.
PassComplete == pc = "for entity" /\ obj.i > Len(obj.ents)

\* The pairs (entity_1, entity_2) of a vector of entities, entity_1 first,
\* both in the order of the vector.
AllPairs(ents) ==
    [k \in 1..(Len(ents) * Len(ents)) |->
        <<ents[((k - 1) \div Len(ents)) + 1], ents[((k - 1) % Len(ents)) + 1]>>]

\* The pairs to test: entity_1 a dynamic object, entity_2 another object.
PairsToTest(w, ents) ==
    SelectSeq(AllPairs(ents),
              LAMBDA p : /\ p[1] # p[2]
                         /\ IsDynamicObject(w, p[1])
                         /\ IsObject(w, p[2]))

PairsTested == [k \in 1..Len(obj.tests) |->
                    <<obj.tests[k].entity_1, obj.tests[k].entity_2>>]

\* A test found a hit exactly when the swept shapes of its two entities, from
\* their positions along the velocities they had when the test was made,
\* collide.
UsedCurrentVelocities(test) ==
    test.hit = check_collision(SweptOf(test.before, test.entity_1),
                               SweptOf(test.before, test.entity_2)).some

\* C21: in every pass of the solver, each entity that has transform, motion
\* state, surface and shape is tested, in list order, against every other
\* entity that has at least transform, surface and shape exactly once, never
\* against itself and never against an entity lacking one of the three; the
\* swept shapes of both members are recomputed from the current velocities
\* for each pair test, so a velocity changed by an earlier reaction of the
\* pass is used by later tests.  The second part is stated of the test made
\* last, which every test of a pass is when it is made.
C21_PairwiseCoverage ==
    /\ PassComplete => PairsTested = PairsToTest(world, obj.ents)
    /\ (pc = "for entity_2" /\ obj.tests # <<>>) =>
        UsedCurrentVelocities(obj.tests[Len(obj.tests)])

\* Box 2 falls on box 0, which was still a gap of 1 above the floor; the
\* reaction sets box 0 moving, and the later test of box 0 against the floor
\* finds the hit its new velocity makes.
C21_Witness ==
    /\ PassComplete
    /\ obj.ents = <<2, 0, 1>>
    /\ PairsTested = <<<<2, 0>>, <<2, 1>>, <<0, 2>>, <<0, 1>>>>
    /\ obj.start.rigid_body[0].val.vel = V(0, 0)
    /\ obj.tests[4].before.rigid_body[0].val.vel = V(0, 1)
    /\ obj.tests[4].hit
    /\ ~check_collision(SweptOf(obj.start, 0), SweptOf(obj.start, 1)).some

\* A pass over a stack whose box 2 has no shape: box 2 is in no test.
IncompleteEntityUntested ==
    /\ PassComplete
    /\ ~IsObject(world, 2)
    /\ obj.ents = <<2, 0, 1>>
    /\ PairsTested = <<<<0, 1>>>>

\* The pass leaves the stores and the flag solved that the function
\* SolverPass gives from the stores the pass began with.
PassAgrees ==
    PassComplete =>
        \E r \in {SolverPass(obj.start, obj.ents, 1, TRUE)} :
            /\ world = r.world
            /\ obj.solved = r.solved

====
